---------------------------- MODULE Spec2Model ----------------------------
(***************************************************************************)
(* A model of Clotho's configuration resolution (utils.fill_config),       *)
(* resource paths (Resource, ResourceShed) and the tool execution engine   *)
(* (Tool.run), over a store of tables of rows (ClothoDB).                  *)
(***************************************************************************)
EXTENDS Integers, Sequences, FiniteSets, TLC

VARIABLES
    db,       \* the store: table name -> sequence of rows (column -> value)
    call,     \* the arguments of the call being made, or the phase of the run
    result,   \* what the last call returned or raised
    heap,     \* the Resource objects in memory, by address
    shed,     \* ResourceShed.resources: name -> address
    stack,    \* the frames of Tool.run, innermost last
    ledger,   \* the history of the run: calls, returns and invocations
    clock     \* the system clock, read by uuid1() and get_now()

vars == <<db, call, result, heap, shed, stack, ledger, clock>>

(***************************************************************************)
(* Python values.  A value carries its type, so that None, False, 0, ''    *)
(* and 'false' are five different values.                                  *)
(***************************************************************************)
None == <<"none">>
Str(s) == <<"str", s>>
Bool(b) == <<"bool", b>>
Num(n) == <<"int", n>>
PathObj(s) == <<"path", s>>          \* a pathlib.Path

IsStr(v) == v[1] = "str"

\* Python truthiness of a value.
Truthy(v) ==
    CASE v[1] = "none" -> FALSE
      [] v[1] = "str"  -> v[2] # ""
      [] v[1] = "bool" -> v[2]
      [] v[1] = "int"  -> v[2] # 0
      [] OTHER         -> TRUE

\* str.lower() on the strings of the model.
LowerMap ==
    [s \in {"Name", "NAME", "ResourceID", "RESOURCEID", "Path", "PATH",
            "Parent", "GIS", "Gis", "X Drive", "R1", "R2", "R3",
            "True", "TRUE", "False", "FALSE", "Missing", "Project Folder",
            "Get Data", "Check Data", "Crunch Data", "No Path", "Fresh",
            "Input 1", "ToolID", "TOOLID", "Value", "VALUE", "Predecessors",
            "Params", "Outputs", "FeederParamName", "FEEDERPARAMNAME",
            "IsInput", "ISINPUT", "ParamID", "PARAMID", "Nowhere", "P4", "TQ"} |->
        CASE s \in {"Name", "NAME"} -> "name"
          [] s \in {"ResourceID", "RESOURCEID"} -> "resourceid"
          [] s \in {"Path", "PATH"} -> "path"
          [] s = "Parent" -> "parent"
          [] s \in {"GIS", "Gis"} -> "gis"
          [] s = "X Drive" -> "x drive"
          [] s = "R1" -> "r1"
          [] s = "R2" -> "r2"
          [] s = "R3" -> "r3"
          [] s \in {"True", "TRUE"} -> "true"
          [] s \in {"False", "FALSE"} -> "false"
          [] s = "Missing" -> "missing"
          [] s = "Project Folder" -> "project folder"
          [] s = "Get Data" -> "get data"
          [] s = "Check Data" -> "check data"
          [] s = "Crunch Data" -> "crunch data"
          [] s = "No Path" -> "no path"
          [] s = "Fresh" -> "fresh"
          [] s = "Input 1" -> "input 1"
          [] s \in {"ToolID", "TOOLID"} -> "toolid"
          [] s \in {"Value", "VALUE"} -> "value"
          [] s = "Predecessors" -> "predecessors"
          [] s = "Params" -> "params"
          [] s = "Outputs" -> "outputs"
          [] s \in {"FeederParamName", "FEEDERPARAMNAME"} -> "feederparamname"
          [] s \in {"IsInput", "ISINPUT"} -> "isinput"
          [] s \in {"ParamID", "PARAMID"} -> "paramid"
          [] s = "Nowhere" -> "nowhere"
          [] s = "P4" -> "p4"
          [] s = "TQ" -> "tq"]

Lower(s) == IF s \in DOMAIN LowerMap THEN LowerMap[s] ELSE s

\* str(value) for the values that reach it.
StrOf(v) ==
    CASE v[1] = "str"  -> v[2]
      [] v[1] = "path" -> v[2]
      [] v[1] = "none" -> "None"
      [] v[1] = "bool" -> IF v[2] THEN "True" ELSE "False"
      [] OTHER         -> ToString(v[2])

(***************************************************************************)
(* Results of calls: a returned value, or a raised exception.              *)
(***************************************************************************)
Returned(v) == [exc |-> "", val |-> v]
Raised(cls, msg) == [exc |-> cls, val |-> msg]
NoResult == [exc |-> "", val |-> <<"pending">>]

(***************************************************************************)
(* The store.  An optional row is a sequence of zero or one rows.          *)
(***************************************************************************)
ResourcesColumns == <<"ResourceID", "Name", "Path", "Parent">>

\* pandas' df[key].str.lower() == str(value).lower(); a cell that is not a
\* string compares unequal.
MatchInsensitive(cell, value) == IsStr(cell) /\ Lower(cell[2]) = Lower(StrOf(value))

\* Mutant: of several rows the first is returned.
FirstRowWins(rows) == Returned(IF rows = <<>> THEN <<>> ELSE <<rows[1]>>)

\* The end of get_row and get_row_insensitive: several rows are an error,
\* one row is returned, no row is None (the empty sequence).
OneRowAtMost(rows) ==
    IF Len(rows) > 1 THEN Raised("ClothoError", "Multiple rows") ELSE Returned(rows)

\* ClothoDB.get_row: the rows whose key column equals the value exactly.
GetRow(d, table, key, value) ==
    LET hit(r) == r[key] = value
    IN  OneRowAtMost(SelectSeq(d[table], hit))

\* ClothoDB.get_row_insensitive.
GetRowInsensitive(d, table, key, value) ==
    LET hit(r) == MatchInsensitive(r[key], value)
    IN  OneRowAtMost(SelectSeq(d[table], hit))

\* ClothoDB.get_columns: the columns of each table that the code reads or
\* writes.
GetColumns(table) ==
    CASE table = "Tools" -> <<"ToolID", "Name", "Path">>
      [] table = "ToolParams" ->
           <<"ParamID", "ToolID", "Name", "IsInput", "IsResource", "IsRead", "IsWrite",
             "Value", "FeederToolName", "FeederParamName">>
      [] table = "ToolPredecessors" -> <<"RelationshipID", "ToolID", "PredecessorID">>
      [] table = "ToolOutputs" -> <<"OutputID", "ToolID", "OutputOrder", "Name">>
      [] table = "Activity" ->
           <<"ActivityID", "ToolID", "ToolName", "ToolPath", "StartTime", "EndTime",
             "Duration", "Succeeded", "Message">>
      [] table = "ActivityIO" ->
           <<"IOID", "ActivityID", "ParamID", "ParamName", "Value", "IsResource",
             "IsInput", "IsRead", "IsWrite">>
      [] table = "BatchActivity" -> <<"RelationshipID", "BatchID", "ActivityID">>
      [] OTHER -> ResourcesColumns

(***************************************************************************)
(* utils.get_case_insensitive over an ordered dictionary, a sequence of    *)
(* <<key, value>> pairs: the value of the first key that matches.          *)
(***************************************************************************)
FirstOf(dictionary, idx, default) ==
    IF idx = {} THEN default
    ELSE dictionary[CHOOSE i \in idx : \A j \in idx : i <= j][2]

GetCaseInsensitive(dictionary, key, default) ==
    FirstOf(dictionary,
            {i \in 1..Len(dictionary) : Lower(dictionary[i][1]) = Lower(key)},
            default)

HasKeyInsensitive(dictionary, key) ==
    \E i \in 1..Len(dictionary) : Lower(dictionary[i][1]) = Lower(key)


(***************************************************************************)
(* utils.fill_config.  config is the caller's partial configuration (None  *)
(* is the empty one), name_column "" stands for no fallback column.        *)
(***************************************************************************)
\* A pathlib.Path value becomes its string.
StrIfPath(val) == IF val[1] = "path" THEN Str(val[2]) ELSE val

\* Mutant: the persisted value wins over the caller's.
OverrideValuePersistedWins(config, key, db_val) ==
    IF db_val # None THEN db_val
    ELSE StrIfPath(GetCaseInsensitive(config, key, db_val))

\* "Replace values from the database with provided values": the caller's
\* value if the configuration has the key, else the row's.
OverrideValue(config, key, db_val) ==
    StrIfPath(GetCaseInsensitive(config, key, db_val))

\* "If we still haven't found it, make a blank dictionary", then the
\* replacement of the row's values.
FillRow(table_name, config, rows) ==
    LET columns == GetColumns(table_name)
        row == IF rows = <<>>
               THEN [c \in {columns[i] : i \in 1..Len(columns)} |-> None]
               ELSE rows[1]
    IN  Returned([key \in DOMAIN row |-> OverrideValue(config, key, row[key])])

FillFound(table_name, config, found) ==
    IF found.exc # "" THEN found ELSE FillRow(table_name, config, found.val)

\* "If that didn't work, try getting it by name."
FillByName(d, table_name, config, name_column, name) ==
    IF Truthy(name)
    THEN FillFound(table_name, config, GetRowInsensitive(d, table_name, name_column, name))
    ELSE FillRow(table_name, config, <<>>)

FillById(d, table_name, config, name_column, byId) ==
    IF byId.exc = "" /\ byId.val = <<>> /\ name_column # ""
    THEN FillByName(d, table_name, config, name_column,
                    GetCaseInsensitive(config, name_column, None))
    ELSE FillFound(table_name, config, byId)

\* "Try getting the row from the database by ID."
LookupById(d, table_name, id_column, id) ==
    IF id = None THEN Returned(<<>>)
    ELSE GetRowInsensitive(d, table_name, id_column, id)

FillConfig(d, table_name, id_column, config, id, name_column) ==
    FillById(d, table_name, config, name_column,
             LookupById(d, table_name, id_column,
                        GetCaseInsensitive(config, id_column, id)))

(***************************************************************************)
(* SpecFill: fill_config applied to every partial configuration, id and    *)
(* fallback column of the bounded sets, over each of the stores.           *)
(***************************************************************************)
MaxConfigLen == 2

ResourceRow(id, name, path, parent) ==
    [ResourceID |-> id, Name |-> name, Path |-> path, Parent |-> parent]

RowXDrive == ResourceRow(Str("r1"), Str("X Drive"), Str("X:"), None)
RowGIS == ResourceRow(Str("r2"), Str("GIS"), Str("GIS"), Str("r1"))
RowProject == ResourceRow(Str("r3"), Str("project folder"), Str("asdf"), Str("r2"))
RowGisTwin == ResourceRow(Str("r4"), Str("gis"), None, None)

EmptyStore == [Resources |-> <<>>]

FillStores ==
    { [Resources |-> <<>>],
      [Resources |-> <<RowProject, RowXDrive, RowGIS>>],
      [Resources |-> <<RowXDrive, RowGIS, RowGisTwin>>] }

FillKeys == {"Name", "name", "resourceid", "Path"}
FillValues == {None, Str("gis"), Str("R2"), PathObj("X:")}
FillPairs == FillKeys \X FillValues
FillConfigs == UNION { [1..n -> FillPairs] : n \in 0..MaxConfigLen }

InitFill ==
    /\ db \in FillStores
    /\ call \in [op : {"fill_config"}, config : FillConfigs,
                 id : {None, Str("r1"), Str("R2"), Str("zz")},
                 name_column : {"", "Name"}]
    /\ result = NoResult
    /\ heap = <<>> /\ shed = <<>> /\ stack = <<>> /\ ledger = <<>> /\ clock = 0

CallFillConfig ==
    /\ call.op = "fill_config"
    /\ result = NoResult
    /\ result' = FillConfig(db, "Resources", "ResourceID", call.config, call.id,
                            call.name_column)
    /\ UNCHANGED <<db, call, heap, shed, stack, ledger, clock>>

NextFill == CallFillConfig

SpecFill == InitFill /\ [][NextFill]_vars

\* What the claim calls the matched row: the rows whose identifier matches the
\* caller's, and failing that the rows whose name matches the caller's.
FillIdSought == GetCaseInsensitive(call.config, "ResourceID", call.id)
FillRowsById ==
    IF FillIdSought = None THEN <<>>
    ELSE LET hit(r) == MatchInsensitive(r.ResourceID, FillIdSought)
         IN  SelectSeq(db.Resources, hit)
FillNameSought == GetCaseInsensitive(call.config, call.name_column, None)
FillRowsByName ==
    IF call.name_column = "" \/ ~Truthy(FillNameSought) THEN <<>>
    ELSE LET hit(r) == MatchInsensitive(r.Name, FillNameSought)
         IN  SelectSeq(db.Resources, hit)
FillMatched == IF FillRowsById # <<>> THEN FillRowsById ELSE FillRowsByName

FillColumnSet == {ResourcesColumns[i] : i \in 1..Len(ResourcesColumns)}
FillDone == call.op = "fill_config" /\ result # NoResult /\ result.exc = ""

\* The caller's value for column f: the value of the first key of the
\* configuration that is f in some letter case.
CallerValue(f) == GetCaseInsensitive(call.config, f, None)
CallerDefines(f) == HasKeyInsensitive(call.config, f)

\* C2 (as stated): every column of the resolved record is the caller's value
\* if the caller's configuration defines it in any letter case, else the
\* persisted value of the matched row, else null.
C2_FillPrecedence_AsStated ==
    FillDone =>
        \A f \in FillColumnSet :
            result.val[f] =
                IF CallerDefines(f) THEN CallerValue(f)
                ELSE IF FillMatched # <<>> THEN FillMatched[1][f]
                ELSE None

\* C2 (amended): the same, with a caller's pathlib.Path value resolved to its
\* string form.
C2_FillPrecedence ==
    FillDone =>
        \A f \in FillColumnSet :
            result.val[f] =
                IF CallerDefines(f)
                THEN IF CallerValue(f)[1] = "path" THEN Str(CallerValue(f)[2])
                     ELSE CallerValue(f)
                ELSE IF FillMatched # <<>> THEN FillMatched[1][f]
                ELSE None

\* Witness of C2: a call that resolved a record from a matched persisted row
\* with one column overridden by the caller and another left to the row.
C2_Witness ==
    /\ FillDone
    /\ FillMatched # <<>>
    /\ \E f \in FillColumnSet : CallerDefines(f) /\ result.val[f] # FillMatched[1][f]
    /\ \E f \in FillColumnSet : ~CallerDefines(f) /\ result.val[f] # None


(***************************************************************************)
(* Resource.  An object is [config, parent_row, has_shed]; parent_row is   *)
(* an optional row; has_shed tells whether it resolves its parent through  *)
(* the ResourceShed.  Constructors and getters return                      *)
(* [res |-> result, heap |-> ..., shed |-> ...] since a getter may fill    *)
(* the shed.                                                               *)
(***************************************************************************)
MaxDepth == 4      \* the interpreter's recursion limit, scaled down

Outcome(r, h, s) == [res |-> r, heap |-> h, shed |-> s]

\* Mutant: the Parent stays as it was given.
InitParentAsGiven(config, found) ==
    IF found.exc # "" THEN found
    ELSE Returned([config |-> config, parent_row |-> found.val])

\* The end of init_parent: a parent that is not found leaves the resource
\* without a parent row; one that is found sets Parent to its identifier.
InitParentFound(config, found) ==
    IF found.exc # "" THEN found
    ELSE IF found.val = <<>> THEN Returned([config |-> config, parent_row |-> <<>>])
    ELSE Returned([config |-> [config EXCEPT !.Parent = found.val[1].ResourceID],
                   parent_row |-> found.val])

InitParentById(d, config, byId) ==
    IF byId.exc = "" /\ byId.val = <<>>
    THEN InitParentFound(config, GetRowInsensitive(d, "Resources", "Name", config.Parent))
    ELSE InitParentFound(config, byId)

\* Resource.init_parent: the configuration and the parent row, or an error.
InitParent(d, config) ==
    IF ~Truthy(config.Parent) THEN Returned([config |-> config, parent_row |-> <<>>])
    ELSE InitParentById(d, config, GetRow(d, "Resources", "ResourceID", config.Parent))

MakeResource(has_shed, p) ==
    IF p.exc # "" THEN p
    ELSE Returned([config |-> p.val.config, parent_row |-> p.val.parent_row,
                   has_shed |-> has_shed])

ConfigureWith(d, has_shed, filled) ==
    IF filled.exc # "" THEN filled
    ELSE MakeResource(has_shed, InitParent(d, filled.val))

\* Resource.configure after the lookup by identifier: "If that didn't work,
\* try using the name."
ConfigureFilled(d, config, has_shed, byId) ==
    IF byId.exc = "" /\ ~Truthy(byId.val.ResourceID)
    THEN ConfigureWith(d, has_shed, FillConfig(d, "Resources", "Name", config, None, ""))
    ELSE ConfigureWith(d, has_shed, byId)

\* Resource.__init__ and Resource.configure: the new object, or an error.
ResourceNew(d, config, id, has_shed) ==
    ConfigureFilled(d, config, has_shed,
                    FillConfig(d, "Resources", "ResourceID", config, id, ""))

\* self.resources[name] = resource
ShedPut(h, s, name, made) ==
    IF made.exc # "" THEN Outcome(made, h, s)
    ELSE Outcome(Returned(Len(h) + 1), Append(h, made.val),
                 [n \in DOMAIN s \cup {name} |-> IF n = name THEN Len(h) + 1 ELSE s[n]])

\* Mutant: the shed keys its instances by the lower-cased name.
ShedGetAnyCase(d, h, s, name) ==
    IF Str(Lower(name[2])) \in DOMAIN s THEN Outcome(Returned(s[Str(Lower(name[2]))]), h, s)
    ELSE ShedPut(h, s, Str(Lower(name[2])), ResourceNew(d, <<<<"Name", name>>>>, None, TRUE))

\* Mutant: the shed constructs a new instance on every request.
ShedGetNoReuse(d, h, s, name) ==
    ShedPut(h, s, name, ResourceNew(d, <<<<"Name", name>>>>, None, TRUE))

\* ResourceShed.get: the address of the cached instance, or of a new one
\* configured by name and cached.
ShedGet(d, h, s, name) ==
    IF name \in DOMAIN s THEN Outcome(Returned(s[name]), h, s)
    ELSE ShedPut(h, s, name, ResourceNew(d, <<<<"Name", name>>>>, None, TRUE))

\* Mutant: the path of a resource is its own Path, without its parent's.
JoinPathOwnOnly(parent_path, path) == Returned(path)

\* The last lines of Resource.path: parent.path + '/' + str(path), undefined
\* when either is None.
JoinPath(parent_path, path) ==
    IF parent_path = None \/ path = None THEN Returned(None)
    ELSE IF ~IsStr(parent_path) THEN Raised("TypeError", "unsupported operand")
    ELSE Returned(Str(parent_path[2] \o "/" \o StrOf(path)))

PathJoin(obj, pp) ==
    IF pp.res.exc # "" THEN pp
    ELSE Outcome(JoinPath(pp.res.val, obj.config.Path), pp.heap, pp.shed)

\* Mutant: the getter does not ask the parent.
PathOfItself(d, h, s, obj, depth) == Outcome(Returned(obj.config.Path), h, s)

\* Resource.path (getter) of object obj, with depth the recursion left.
RECURSIVE PathOf(_, _, _, _, _)

\* parent = self._resource_shed.get(self._parent_row['Name'])
PathViaShed(d, obj, depth, got) ==
    IF got.res.exc # "" THEN got
    ELSE PathJoin(obj, PathOf(d, got.heap, got.shed, got.heap[got.res.val], depth - 1))

\* parent = Resource(self._db, id=self._parent_row['ResourceID'])
PathStandalone(d, h, s, obj, depth, made) ==
    IF made.exc # "" THEN Outcome(made, h, s)
    ELSE PathJoin(obj, PathOf(d, h, s, made.val, depth - 1))

PathOf(d, h, s, obj, depth) ==
    IF obj.parent_row = <<>> THEN Outcome(Returned(obj.config.Path), h, s)
    ELSE IF depth = 0
    THEN Outcome(Raised("RecursionError", "maximum recursion depth"), h, s)
    ELSE IF obj.has_shed
    THEN PathViaShed(d, obj, depth, ShedGet(d, h, s, obj.parent_row[1].Name))
    ELSE PathStandalone(d, h, s, obj, depth,
                        ResourceNew(d, <<>>, obj.parent_row[1].ResourceID, FALSE))

\* Resource.path (setter).
SetPathOf(obj, new_path) == [obj EXCEPT !.config.Path = new_path]

(***************************************************************************)
(* ToolParam.get_resource, value (getter) and value (setter) of a          *)
(* resource-flagged parameter that has a shed: config.Value names the      *)
(* resource.                                                               *)
(***************************************************************************)
ParamPathOf(d, got) ==
    IF got.res.exc # "" THEN got
    ELSE PathOf(d, got.heap, got.shed, got.heap[got.res.val], MaxDepth)

ParamGetValue(d, h, s, param_value) == ParamPathOf(d, ShedGet(d, h, s, param_value))

ParamSetPath(got, val) ==
    IF got.res.exc # "" THEN got
    ELSE Outcome(Returned(None),
                 [got.heap EXCEPT ![got.res.val] = SetPathOf(@, val)],
                 got.shed)

ParamSetValue(d, h, s, param_value, val) ==
    ParamSetPath(ShedGet(d, h, s, param_value), val)

(***************************************************************************)
(* SpecRes: resources constructed standalone or through one ResourceShed,  *)
(* their paths read and assigned, over a store whose names are unique.     *)
(***************************************************************************)
MaxObjects == 2       \* objects the caller constructs or requests by name

RowOrphan == ResourceRow(Str("r5"), Str("lost"), Str("asdf"), Str("Missing"))
RowUnderOrphan == ResourceRow(Str("r6"), Str("found"), Str("sub"), Str("r5"))
RowNoPath == ResourceRow(Str("r7"), Str("Scratch"), None, Str("r1"))
RowUnderNoPath == ResourceRow(Str("r8"), Str("tmp"), Str("t"), Str("r7"))
RowByName == ResourceRow(Str("r9"), Str("maps"), Str("m"), Str("gis"))

\* The parameters of a tool 'tw': a literal one, and resource-flagged ones
\* whose Value is the name of a resource.
ResParamRow(id, name, is_resource, value) ==
    [ParamID |-> id, ToolID |-> Str("tw"), Name |-> name, IsInput |-> Bool(TRUE),
     IsResource |-> is_resource, IsRead |-> None, IsWrite |-> None, Value |-> value,
     FeederToolName |-> None, FeederParamName |-> None]

ResParams(names) ==
    <<ResParamRow(Str("q0"), Str("endpoint"), None, Str("https://x"))>> \o
    [i \in 1..Len(names) |->
        ResParamRow(Str("q" \o ToString(i)), Str("file" \o ToString(i)), Bool(TRUE),
                    names[i])]

ChainStore == [Resources |-> <<RowProject, RowXDrive, RowGIS, RowByName>>,
               ToolParams |-> ResParams(<<Str("project folder"), Str("GIS")>>)]
OrphanStore == [Resources |-> <<RowXDrive, RowOrphan, RowUnderOrphan>>,
                ToolParams |-> ResParams(<<Str("found")>>)]
NoPathStore == [Resources |-> <<RowXDrive, RowNoPath, RowUnderNoPath>>,
                ToolParams |-> ResParams(<<Str("tmp")>>)]
ResStores == {ChainStore, OrphanStore, NoPathStore}

\* A store whose Parent values go round: 'ring a' and 'ring b' are each
\* other's parent, one by identifier and one by name, 'knot' is its own,
\* 'spur' is under 'ring a'; 'GIS' under 'X Drive' is a chain that ends.
RowRingA == ResourceRow(Str("c1"), Str("ring a"), Str("a"), Str("c2"))
RowRingB == ResourceRow(Str("c2"), Str("ring b"), Str("b"), Str("ring a"))
RowKnot == ResourceRow(Str("c3"), Str("knot"), Str("k"), Str("c3"))
RowSpur == ResourceRow(Str("c4"), Str("spur"), Str("s"), Str("c1"))

LoopStore == [Resources |-> <<RowXDrive, RowGIS, RowRingA, RowRingB, RowKnot, RowSpur>>,
              ToolParams |-> ResParams(<<Str("knot"), Str("GIS")>>)]

\* A store whose resources are requested under names in either case.
CaseStore == [Resources |-> <<RowXDrive, RowGIS, RowProject>>,
              ToolParams |-> ResParams(<<Str("GIS")>>)]

\* (config, id) arguments of the Resource constructor, per store.
ResNewArgs(d) ==
    CASE d = ChainStore ->
           { <<<<>>, Str("r3")>>, << <<<<"name", Str("Project Folder")>>>>, None >> }
      [] d = OrphanStore -> { <<<<>>, Str("r5")>>, <<<<>>, Str("r6")>> }
      [] d = LoopStore ->
           { <<<<>>, Str("c3")>>, <<<<>>, Str("c4")>> }
      [] OTHER -> { <<<<>>, Str("r8")>> }

\* The names requested of the shed, per store.
ResNames(d) ==
    CASE d = ChainStore -> {Str("project folder"), Str("GIS")}
      [] d = OrphanStore -> {Str("found")}
      [] d = LoopStore -> {Str("ring b"), Str("knot"), Str("GIS")}
      [] d = CaseStore -> {Str("GIS"), Str("gis"), Str("project folder")}
      [] OTHER -> {Str("tmp")}

ResPaths == {Str("qwer"), None}

InitRes ==
    /\ db \in ResStores
    /\ call = [op |-> "start"]
    /\ result = NoResult
    /\ heap = <<>> /\ shed = <<>> /\ stack = <<>> /\ ledger = <<>> /\ clock = 0

\* The caller keeps what a call returned; the heap and the shed are as the
\* call left them.
Leaves(got) == result' = got.res /\ heap' = got.heap /\ shed' = got.shed

Constructed(made) ==
    IF made.exc # "" THEN Outcome(made, heap, shed)
    ELSE Outcome(Returned(Len(heap) + 1), Append(heap, made.val), shed)

\* resource = Resource(db, config, id)
ResNew ==
    \E a \in ResNewArgs(db) :
        /\ Len(heap) < MaxObjects
        /\ Leaves(Constructed(ResourceNew(db, a[1], a[2], FALSE)))
        /\ call' = [op |-> "new", config |-> a[1], id |-> a[2]]
        /\ UNCHANGED <<db, stack, ledger, clock>>

\* resource = shed.get(name)
ResShedGet ==
    \E name \in ResNames(db) :
        /\ Len(heap) < MaxObjects \/ name \in DOMAIN shed
        /\ Leaves(ShedGet(db, heap, shed, name))
        /\ call' = [op |-> "shed_get", name |-> name]
        /\ UNCHANGED <<db, stack, ledger, clock>>

\* resource.path
ResReadPath ==
    \E addr \in 1..Len(heap) :
        /\ Leaves(PathOf(db, heap, shed, heap[addr], MaxDepth))
        /\ call' = [op |-> "path", addr |-> addr]
        /\ UNCHANGED <<db, stack, ledger, clock>>

\* resource.path = new_path
ResSetPath ==
    \E addr \in 1..Len(heap), new_path \in ResPaths :
        /\ heap' = [heap EXCEPT ![addr] = SetPathOf(@, new_path)]
        /\ result' = Returned(None)
        /\ call' = [op |-> "set_path", addr |-> addr, val |-> new_path]
        /\ UNCHANGED <<db, shed, stack, ledger, clock>>

\* param.value = val, for a resource-flagged ToolParam whose Value is name
ResParamSet ==
    \E name \in ResNames(db), val \in ResPaths :
        /\ Len(heap) < MaxObjects \/ name \in DOMAIN shed
        /\ Leaves(ParamSetValue(db, heap, shed, name, val))
        /\ call' = [op |-> "param_set", name |-> name, val |-> val]
        /\ UNCHANGED <<db, stack, ledger, clock>>

\* param.value, for a resource-flagged ToolParam whose Value is name
ResParamGet ==
    \E name \in ResNames(db) :
        /\ Len(heap) < MaxObjects \/ name \in DOMAIN shed
        /\ Leaves(ParamGetValue(db, heap, shed, name))
        /\ call' = [op |-> "param_get", name |-> name]
        /\ UNCHANGED <<db, stack, ledger, clock>>

NextRes ==
    \/ ResNew
    \/ ResShedGet
    \/ ResReadPath
    \/ ResSetPath
    \/ ResParamSet
    \/ ResParamGet

SpecRes == InitRes /\ [][NextRes]_vars


(***************************************************************************)
(* Claims about Resource.path and the ResourceShed.                        *)
(***************************************************************************)
Addresses == 1..Len(heap)

\* The path the getter returns now for the object at addr.
PathNow(addr) == PathOf(db, heap, shed, heap[addr], MaxDepth).res

\* The persisted rows with this identifier.
RowsWithId(id) ==
    LET hit(r) == r.ResourceID = id IN SelectSeq(db.Resources, hit)

\* A resource's ancestor is the row its Parent names; the ancestor's Path is
\* the persisted one, or the one held by the shed's instance of that name when
\* the resource resolves its parent through the shed.
AncestorPath(obj, row) ==
    IF obj.has_shed /\ row.Name \in DOMAIN shed
    THEN heap[shed[row.Name]].config.Path
    ELSE row.Path

\* obj is the C of a chain A <- B <- C: its parent row B is resolved, B's
\* Parent is the identifier of a row A, and A has no Parent.
IsChainOfThree(obj) ==
    /\ obj.parent_row # <<>>
    /\ Len(RowsWithId(obj.parent_row[1].Parent)) = 1
    /\ RowsWithId(obj.parent_row[1].Parent)[1].Parent = None

ChainB(obj) == obj.parent_row[1]
ChainA(obj) == RowsWithId(obj.parent_row[1].Parent)[1]

ChainPathsNonNull(obj) ==
    /\ obj.config.Path # None
    /\ AncestorPath(obj, ChainA(obj)) # None
    /\ AncestorPath(obj, ChainB(obj)) # None

C8_Composition ==
    \A addr \in Addresses :
        LET obj == heap[addr]
        IN  IsChainOfThree(obj) /\ ChainPathsNonNull(obj) =>
                PathNow(addr) =
                    Returned(Str(AncestorPath(obj, ChainA(obj))[2] \o "/" \o
                                 AncestorPath(obj, ChainB(obj))[2] \o "/" \o
                                 obj.config.Path[2]))

C8_Assigned ==
    call.op = "set_path" => heap[call.addr].config.Path = call.val

C8_Frame ==
    call'.op = "set_path" =>
        /\ db' = db
        /\ shed' = shed
        /\ Len(heap') = Len(heap)
        /\ \A addr \in Addresses : addr # call'.addr => heap'[addr] = heap[addr]

\* C8: for a chain A <- B <- C with non-null Paths, C.path is
\* A.Path + "/" + B.Path + "/" + C.Path; assigning C.path = p makes C's own
\* Path p (so C.path becomes A.Path + "/" + B.Path + "/" + p) and changes no
\* other resource and no persisted row.
C8_PathComposition ==
    /\ [](C8_Composition /\ C8_Assigned)
    /\ [][C8_Frame]_vars

\* Witness of C8: the path of a chain's third resource was read after "qwer"
\* was assigned to it, and shows the two ancestors' Paths before it.
C8_Witness ==
    /\ call.op = "path"
    /\ IsChainOfThree(heap[call.addr])
    /\ heap[call.addr].config.Path = Str("qwer")
    /\ result = Returned(Str("X:/GIS/qwer"))

\* A resource has an unresolved ancestor when the Parent value of the resource
\* or of a persisted ancestor row matches no persisted resource by identifier
\* or by name; it has a null-Path ancestor when such a row's Path is null.
ParentRows(parent_val) ==
    LET byId == RowsWithId(parent_val)
        hit(r) == MatchInsensitive(r.Name, parent_val)
    IN  IF byId # <<>> THEN byId ELSE SelectSeq(db.Resources, hit)

RECURSIVE HasUnresolvedAncestor(_, _)
HasUnresolvedAncestor(parent_val, depth) ==
    /\ Truthy(parent_val)
    /\ depth > 0
    /\ \/ ParentRows(parent_val) = <<>>
       \/ /\ ParentRows(parent_val) # <<>>
          /\ HasUnresolvedAncestor(ParentRows(parent_val)[1].Parent, depth - 1)

RECURSIVE HasNullPathAncestor(_, _, _)
HasNullPathAncestor(obj, parent_val, depth) ==
    /\ Truthy(parent_val)
    /\ depth > 0
    /\ ParentRows(parent_val) # <<>>
    /\ \/ AncestorPath(obj, ParentRows(parent_val)[1]) = None
       \/ HasNullPathAncestor(obj, ParentRows(parent_val)[1].Parent, depth - 1)

C9_WhenUnresolved ==
    /\ call.op = "path"
    /\ HasUnresolvedAncestor(heap[call.addr].config.Parent, MaxDepth)
    => result = Returned(None)

C9_WhenNullPath ==
    /\ call.op = "path"
    /\ HasNullPathAncestor(heap[call.addr], heap[call.addr].config.Parent, MaxDepth)
    => result = Returned(None)

\* C9 (as stated): if any ancestor in a resource's Parent chain is unresolved
\* or has a null Path, Resource.path is None and no error is raised.
C9_UndefinedPath == C9_WhenUnresolved /\ C9_WhenNullPath

\* What a holder of the shared instance of a name observes.
SharedPath(name) == heap[shed[name]].config.Path

C10_GetReturnsCached ==
    call.op = "shed_get" /\ result.exc = "" =>
        call.name \in DOMAIN shed /\ result.val = shed[call.name]

C10_SetVisible ==
    /\ call.op = "param_set" /\ result.exc = "" => SharedPath(call.name) = call.val
    /\ call.op = "param_get" /\ result.exc = "" => result = PathNow(shed[call.name])

C10_ChildSees ==
    \A addr \in Addresses :
        LET obj == heap[addr]
        IN  /\ obj.has_shed
            /\ obj.parent_row # <<>>
            /\ obj.parent_row[1].Name \in DOMAIN shed
            /\ PathNow(shed[obj.parent_row[1].Name]).exc = ""
            => PathNow(addr) =
                 LET parent_path == PathNow(shed[obj.parent_row[1].Name]).val
                 IN  IF parent_path = None \/ obj.config.Path = None
                     THEN Returned(None)
                     ELSE Returned(Str(parent_path[2] \o "/" \o obj.config.Path[2]))

C10_Stable ==
    \A name \in DOMAIN shed : name \in DOMAIN shed' /\ shed'[name] = shed[name]

\* C10: within one shed every get(name) returns the one instance cached for
\* that name, which is never replaced, so a path assigned through a ToolParam
\* is the path every other holder of the name reads, child resources that
\* resolve their parent through the shed included.
C10_SharedInstance ==
    /\ [](C10_GetReturnsCached /\ C10_SetVisible /\ C10_ChildSees)
    /\ [][C10_Stable]_vars

\* Witness of C10: a child resolved through the shed reads a path that shows
\* the "qwer" assigned to its parent's shared instance, not the persisted "GIS".
C10_Witness ==
    /\ call.op = "path"
    /\ heap[call.addr].has_shed
    /\ Str("GIS") \in DOMAIN shed
    /\ SharedPath(Str("GIS")) = Str("qwer")
    /\ result = Returned(Str("X:/qwer/asdf"))

(***************************************************************************)
(* The store's writes, and the clock.                                      *)
(***************************************************************************)
\* str(uuid.uuid1()) drawn when the clock reads c; the clock then moves on.
Uuid1(c) == Str("u" \o ToString(c))

\* The schema template of set_row: the columns the row leaves out are empty.
TemplateRow(table, row) ==
    [c \in {GetColumns(table)[i] : i \in 1..Len(GetColumns(table))} |->
        IF c \in DOMAIN row THEN row[c] ELSE None]

\* Mutant: the new row is added and the old one stays.
SetRowAppended(d, table, row, id_col) ==
    [d EXCEPT ![table] = Append(@, TemplateRow(table, row))]

\* ClothoDB.set_row: the rows with another identifier, then the new row.
SetRow(d, table, row, id_col) ==
    LET keep(r) == row[id_col] = None \/ r[id_col] # row[id_col]
    IN  [d EXCEPT ![table] = Append(SelectSeq(@, keep), TemplateRow(table, row))]

\* SQLiteDB.update: the cells of the matching rows, for the values that are
\* not None.
UpdateCells(r, vals) ==
    [c \in DOMAIN r |-> IF c \in DOMAIN vals /\ vals[c] # None THEN vals[c] ELSE r[c]]

Update(d, table, query_col, query_val, vals) ==
    [d EXCEPT ![table] =
        [i \in 1..Len(@) |->
            IF @[i][query_col] = query_val THEN UpdateCells(@[i], vals) ELSE @[i]]]

\* ClothoDB.get with the query  "col" == '{}'.format(value).
QueryEq(d, table, col, value) ==
    LET hit(r) == r[col] = Str(StrOf(value))
    IN  SelectSeq(d[table], hit)

(***************************************************************************)
(* ToolParam.  An object is [name, config], config being the row of        *)
(* ToolParams without its Name.  The tools of the engine have no           *)
(* ResourceShed, so a resource-flagged parameter makes a standalone        *)
(* Resource on every access.                                               *)
(***************************************************************************)
\* self.name = self.config.pop('Name'), and IsInput defaults to True.
ParamFinish(cfg) ==
    [name |-> cfg.Name,
     config |-> [k \in DOMAIN cfg \ {"Name"} |->
                    IF k = "IsInput" /\ cfg[k] = None THEN Bool(TRUE) ELSE cfg[k]]]

\* The row found by tool and name replaces the configuration, the caller's
\* values overriding the row's.
ParamMerge(config, cfg, rows) ==
    IF rows = <<>> THEN Returned(ParamFinish(cfg))
    ELSE Returned(ParamFinish([key \in DOMAIN rows[1] |->
                                  GetCaseInsensitive(config, key, rows[1][key])]))

\* "If that didn't work, try getting it by tool ID & param name."
ParamByToolAndName(d, config, cfg) ==
    LET hit(r) == /\ IsStr(r.Name) /\ Lower(r.Name[2]) = Lower(StrOf(cfg.Name))
                  /\ r.ToolID = cfg.ToolID
    IN  IF Truthy(cfg.ParamID) \/ ~Truthy(cfg.ToolID) THEN Returned(ParamFinish(cfg))
        ELSE IF ~IsStr(cfg.Name) THEN Raised("AttributeError", "lower")
        ELSE ParamMerge(config, cfg, SelectSeq(d.ToolParams, hit))

ParamConfigured(d, config, filled) ==
    IF filled.exc # "" THEN filled ELSE ParamByToolAndName(d, config, filled.val)

\* ToolParam.__init__ and ToolParam.configure.
ParamNew(d, config, id) ==
    ParamConfigured(d, config, FillConfig(d, "ToolParams", "ParamID", config, id, ""))

\* The row that commit writes: the configuration and the name.
ParamRow(param) ==
    [k \in DOMAIN param.config \cup {"Name"} |->
        IF k = "Name" THEN param.name ELSE param.config[k]]

\* self.config['ToolID'] = tool_id puts the key when the configuration
\* has lost it.
WithParamId(param, tool_id, c) ==
    [name |-> param.name,
     config |-> [k \in DOMAIN param.config \cup {"ToolID"} |->
                    CASE k = "ToolID" -> tool_id
                      [] k = "ParamID" ->
                           IF Truthy(param.config[k]) THEN param.config[k] ELSE Uuid1(c)
                      [] OTHER -> param.config[k]]]

\* ToolParam.commit: [db, clock, param] afterwards.
ParamCommit(d, c, param, tool_id) ==
    [db |-> SetRow(d, "ToolParams", ParamRow(WithParamId(param, tool_id, c)), "ParamID"),
     clock |-> IF Truthy(param.config.ParamID) THEN c ELSE c + 1,
     param |-> WithParamId(param, tool_id, c)]

\* ToolParam.value (getter) without a shed.
StandalonePath(d, made) ==
    IF made.exc # "" THEN made ELSE PathOf(d, <<>>, <<>>, made.val, MaxDepth).res

ParamValue(d, param) ==
    IF ~Truthy(param.config.IsResource) THEN Returned(param.config.Value)
    ELSE StandalonePath(d, ResourceNew(d, <<<<"Name", param.config.Value>>>>, None, FALSE))

\* ToolParam.value (setter) without a shed: the path is assigned to a
\* Resource that nothing else holds.
ParamAssigned(param, val, made) ==
    IF made.exc # "" THEN made ELSE Returned(param)

ParamSetRaw(d, param, val) ==
    IF ~Truthy(param.config.IsResource)
    THEN Returned([param EXCEPT !.config.Value = val])
    ELSE ParamAssigned(param, val,
                       ResourceNew(d, <<<<"Name", param.config.Value>>>>, None, FALSE))

\* Mutant: the row of ActivityIO is written without its activity.
IORowUnlinked(param, io_id, activity_id, value) ==
    [IOID |-> io_id, ActivityID |-> None, ParamID |-> param.config.ParamID,
     ParamName |-> param.name, Value |-> value,
     IsResource |-> param.config.IsResource, IsInput |-> param.config.IsInput,
     IsRead |-> param.config.IsRead, IsWrite |-> param.config.IsWrite]

\* The row of ActivityIO that record_io writes.
IORow(param, io_id, activity_id, value) ==
    [IOID |-> io_id, ActivityID |-> activity_id, ParamID |-> param.config.ParamID,
     ParamName |-> param.name, Value |-> value,
     IsResource |-> param.config.IsResource, IsInput |-> param.config.IsInput,
     IsRead |-> param.config.IsRead, IsWrite |-> param.config.IsWrite]

RecordCommitted(w, activity_id, value) ==
    [db |-> SetRow(w.db, "ActivityIO",
                   IORow(w.param, Uuid1(w.clock), activity_id, value), "IOID"),
     clock |-> w.clock + 1, param |-> w.param, res |-> Returned(None)]

\* tool_id = tool_id or self.config.get('ToolID')
ToolIdOr(param, tool_id) ==
    IF Truthy(tool_id) THEN tool_id
    ELSE IF "ToolID" \in DOMAIN param.config THEN param.config.ToolID
    ELSE None

\* Mutant: the parameter is never committed first.
RecordIOUncommitted(d, c, param, activity_id, value, tool_id) ==
    IF ToolIdOr(param, tool_id) = None
    THEN [db |-> d, clock |-> c, param |-> param,
          res |-> Raised("ClothoError", "No tool ID set for param")]
    ELSE RecordCommitted([db |-> d, clock |-> c, param |-> param], activity_id, value)

\* ToolParam.record_io: [db, clock, param, res] afterwards.
RecordIO(d, c, param, activity_id, value, tool_id) ==
    IF ToolIdOr(param, tool_id) = None
    THEN [db |-> d, clock |-> c, param |-> param,
          res |-> Raised("ClothoError", "No tool ID set for param")]
    ELSE IF ~Truthy(param.config.ParamID)
    THEN RecordCommitted(ParamCommit(d, c, param, ToolIdOr(param, tool_id)),
                         activity_id, value)
    ELSE RecordCommitted([db |-> d, clock |-> c, param |-> param], activity_id, value)

(***************************************************************************)
(* SpecVal: ToolParam.value of a parameter that has a ResourceShed, read   *)
(* and assigned beside the shed's own resources.  The variable stack holds *)
(* the ToolParam the caller constructed, a sequence of at most one object. *)
(***************************************************************************)
IsFlagged(param) == Truthy(param.config.IsResource)

\* ToolParam.value (getter): the path of the resource the shed has under
\* the name that is the literal Value, else the literal Value.
ParamValueOf(d, h, s, param) ==
    IF IsFlagged(param) THEN ParamGetValue(d, h, s, param.config.Value)
    ELSE Outcome(Returned(param.config.Value), h, s)

\* Mutant: the setter assigns the literal Value, flagged or not.
ParamLiteralSet(param, val) == [param EXCEPT !.config.Value = val]

\* ToolParam.value (setter), the parameter afterwards: the literal Value is
\* assigned only if the parameter is not resource-flagged.
ParamAfterSet(param, val) ==
    IF IsFlagged(param) THEN param ELSE [param EXCEPT !.config.Value = val]

\* ToolParam.value (setter), the heap and the shed afterwards.
ParamValueSet(d, h, s, param, val) ==
    IF IsFlagged(param) THEN ParamSetValue(d, h, s, param.config.Value, val)
    ELSE Outcome(Returned(None), h, s)

ParamHeld(made) == IF made.exc # "" THEN <<>> ELSE <<made.val>>

\* param = ToolParam(db, id=id, resource_shed=shed)
ResParamNew ==
    \E i \in 1..Len(db.ToolParams) :
        /\ stack = <<>>
        /\ result' = ParamNew(db, <<>>, db.ToolParams[i].ParamID)
        /\ stack' = ParamHeld(ParamNew(db, <<>>, db.ToolParams[i].ParamID))
        /\ call' = [op |-> "param_new", id |-> db.ToolParams[i].ParamID]
        /\ UNCHANGED <<db, heap, shed, ledger, clock>>

\* The shed has room for the resource the parameter names.
ShedHasRoom(param) ==
    \/ ~IsFlagged(param)
    \/ Len(heap) < MaxObjects
    \/ param.config.Value \in DOMAIN shed

ParamAssignDone(got, param, val) ==
    /\ Leaves(got)
    /\ stack' = IF got.res.exc # "" THEN stack ELSE <<ParamAfterSet(param, val)>>

\* param.value = val
ResParamAssign ==
    /\ stack # <<>>
    /\ ShedHasRoom(stack[1])
    /\ \E val \in ResPaths :
           /\ ParamAssignDone(ParamValueSet(db, heap, shed, stack[1], val), stack[1], val)
           /\ call' = [op |-> "param_assign", val |-> val, before |-> stack[1]]
    /\ UNCHANGED <<db, ledger, clock>>

\* param.value
ResParamRead ==
    /\ stack # <<>>
    /\ ShedHasRoom(stack[1])
    /\ Leaves(ParamValueOf(db, heap, shed, stack[1]))
    /\ call' = [op |-> "param_read"]
    /\ UNCHANGED <<db, stack, ledger, clock>>

NextVal ==
    \/ ResParamNew
    \/ ResParamAssign
    \/ ResParamRead
    \/ ResShedGet
    \/ ResReadPath

SpecVal == InitRes /\ [][NextVal]_vars

(***************************************************************************)
(* Tool.  An object is [config, params, predecessors, outputs]: the row of *)
(* Tools, the ToolParam objects in the order of the params dictionary, the *)
(* rows [Name, ToolID] of the predecessors table, and the output names.    *)
(* A caller's configuration is [fields, params, predecessors, outputs]:    *)
(* the scalar keys as <<key, value>> pairs, the 'params' dictionary as     *)
(* <<name, pairs>> entries, the 'predecessors' dictionary as <<name,       *)
(* pairs>> entries, and the 'outputs' list.                                *)
(***************************************************************************)
NoConfig == [fields |-> <<>>, params |-> <<>>, predecessors |-> <<>>, outputs |-> <<>>]

Range(seq) == {seq[i] : i \in 1..Len(seq)}

\* dictionary[key] = val
DictSet(dictionary, key, val) ==
    IF \E i \in 1..Len(dictionary) : dictionary[i][1] = key
    THEN [i \in 1..Len(dictionary) |->
            IF dictionary[i][1] = key THEN <<key, val>> ELSE dictionary[i]]
    ELSE Append(dictionary, <<key, val>>)

\* dictionary.get(key, default)
DictGet(dictionary, key, default) ==
    FirstOf(dictionary, {i \in 1..Len(dictionary) : dictionary[i][1] = key}, default)

\* self.params[param.name] = param
ParamsPut(params, param) ==
    IF \E i \in 1..Len(params) : params[i].name = param.name
    THEN [i \in 1..Len(params) |-> IF params[i].name = param.name THEN param ELSE params[i]]
    ELSE Append(params, param)

\* init_predecessors, the configured predecessors: the ToolID given, else
\* that of the tool of that name, else nothing.
PredLookup(name, given, found) ==
    IF found.exc # "" THEN found
    ELSE Returned([Name |-> name,
                   ToolID |-> IF found.val = <<>> THEN given ELSE found.val[1].ToolID])

ConfigPred(d, name, given) ==
    IF Truthy(given) THEN Returned([Name |-> name, ToolID |-> given])
    ELSE PredLookup(name, given, GetRowInsensitive(d, "Tools", "Name", name))

RECURSIVE ConfigPreds(_, _, _, _)

ConfigPredsNext(d, preds, i, acc, one) ==
    IF one.exc # "" THEN one ELSE ConfigPreds(d, preds, i + 1, Append(acc, one.val))

ConfigPreds(d, preds, i, acc) ==
    IF i > Len(preds) THEN Returned(acc)
    ELSE ConfigPredsNext(d, preds, i, acc,
                         ConfigPred(d, preds[i][1], DictGet(preds[i][2], "ToolID", None)))

\* init_predecessors, the predecessors of the store that the configuration
\* did not name.
RECURSIVE StoredPreds(_, _, _, _, _)

StoredPredFound(d, rows, i, config_ids, acc, found) ==
    IF found.exc # "" THEN found
    ELSE IF found.val = <<>>
    THEN Raised("ClothoToolError",
                <<"Predecessor tool not found", rows[i].PredecessorID>>)
    ELSE StoredPreds(d, rows, i + 1, config_ids,
                     Append(acc, [Name |-> found.val[1].Name,
                                  ToolID |-> rows[i].PredecessorID]))

StoredPreds(d, rows, i, config_ids, acc) ==
    IF i > Len(rows) THEN Returned(acc)
    ELSE IF ~Truthy(rows[i].PredecessorID) \/ rows[i].PredecessorID \in config_ids
    THEN StoredPreds(d, rows, i + 1, config_ids, acc)
    ELSE StoredPredFound(d, rows, i, config_ids, acc,
                         GetRow(d, "Tools", "ToolID", rows[i].PredecessorID))

\* Mutant: the predecessors of the store come before the configured ones.
StoredPredsFirst(configured, stored) ==
    IF stored.exc # "" THEN stored ELSE Returned(stored.val \o configured.val)

InitStoredPredsFirst(d, id, configured) ==
    IF configured.exc # "" \/ ~Truthy(id) THEN configured
    ELSE StoredPredsFirst(configured,
                          StoredPreds(d, QueryEq(d, "ToolPredecessors", "ToolID", id), 1,
                                      {configured.val[i].ToolID :
                                           i \in 1..Len(configured.val)},
                                      <<>>))

\* Mutant: the predecessors of the store are not read.
InitStoredPredsNone(d, id, configured) == configured

InitStoredPreds(d, id, configured) ==
    IF configured.exc # "" \/ ~Truthy(id) THEN configured
    ELSE StoredPreds(d, QueryEq(d, "ToolPredecessors", "ToolID", id), 1,
                     {configured.val[i].ToolID : i \in 1..Len(configured.val)},
                     configured.val)

\* config.get('predecessors', {}): the key as it is written.
SectionExact(config, key) == IF key \in DOMAIN config THEN config[key] ELSE <<>>

\* utils.get_case_insensitive(config, 'outputs', []), and the same for
\* 'params': the key in any letter case.
SectionInsensitive(config, key) ==
    IF \E k \in DOMAIN config : Lower(k) = key
    THEN config[CHOOSE k \in DOMAIN config : Lower(k) = key]
    ELSE <<>>

\* Tool.init_predecessors.
InitPredecessors(d, config, id) ==
    InitStoredPreds(d, id, ConfigPreds(d, SectionExact(config, "predecessors"), 1, <<>>))

\* output_rows.sort_values('OutputOrder')
RECURSIVE SortByOrder(_)
SortByOrder(rows) ==
    IF rows = <<>> THEN <<>>
    ELSE LET first == CHOOSE i \in 1..Len(rows) :
                 \A j \in 1..Len(rows) :
                     \/ rows[i].OutputOrder[2] < rows[j].OutputOrder[2]
                     \/ rows[i].OutputOrder[2] = rows[j].OutputOrder[2] /\ i <= j
             rest == [k \in 1..(Len(rows) - 1) |-> IF k < first THEN rows[k] ELSE rows[k + 1]]
         IN  <<rows[first]>> \o SortByOrder(rest)

\* "Add any extra output names from the database."
RECURSIVE AppendNew(_, _, _)
AppendNew(outputs, rows, i) ==
    IF i > Len(rows) THEN outputs
    ELSE AppendNew(IF rows[i].Name \in Range(outputs) THEN outputs
                   ELSE Append(outputs, rows[i].Name),
                   rows, i + 1)

InitOutputs(d, config, id) ==
    AppendNew(SectionInsensitive(config, "outputs"),
              SortByOrder(QueryEq(d, "ToolOutputs", "ToolID", id)), 1)

\* init_params, "Get the params from the config file": acc is [params, ids,
\* outputs].
RECURSIVE ConfigParams(_, _, _, _, _)

ConfigParamPut(acc, param) ==
    [params |-> ParamsPut(acc.params, param),
     ids |-> IF Truthy(param.config.ParamID) THEN acc.ids \cup {param.config.ParamID}
             ELSE acc.ids,
     outputs |-> IF ~Truthy(param.config.IsInput) /\ param.name \notin Range(acc.outputs)
                 THEN Append(acc.outputs, param.name) ELSE acc.outputs]

ConfigParamMade(d, tool_id, entries, i, acc, made) ==
    IF made.exc # "" THEN made
    ELSE ConfigParams(d, tool_id, entries, i + 1, ConfigParamPut(acc, made.val))

ConfigParams(d, tool_id, entries, i, acc) ==
    IF i > Len(entries) THEN Returned(acc)
    ELSE ConfigParamMade(d, tool_id, entries, i, acc,
             ParamNew(d, DictSet(DictSet(entries[i][2], "Name", entries[i][1]),
                                 "ToolID", tool_id),
                      None))

\* init_params, "Get any params from the database that weren't in the
\* config file."
RECURSIVE StoredParams(_, _, _, _)

StoredParamMade(d, rows, i, acc, made) ==
    IF made.exc # "" THEN made
    ELSE StoredParams(d, rows, i + 1, [acc EXCEPT !.params = ParamsPut(@, made.val)])

StoredParams(d, rows, i, acc) ==
    IF i > Len(rows) THEN Returned(acc)
    ELSE IF rows[i].ParamID \in acc.ids THEN StoredParams(d, rows, i + 1, acc)
    ELSE StoredParamMade(d, rows, i, acc, ParamNew(d, <<>>, rows[i].ParamID))

InitStoredParams(d, tool_id, configured) ==
    IF configured.exc # "" \/ ~Truthy(tool_id) THEN configured
    ELSE StoredParams(d, QueryEq(d, "ToolParams", "ToolID", tool_id), 1, configured.val)

\* Tool.init_params, after the outputs.
InitParams(d, config, tool_id, outputs) ==
    InitStoredParams(d, tool_id,
        ConfigParams(d, tool_id, SectionInsensitive(config, "params"), 1,
                     [params |-> <<>>, ids |-> {}, outputs |-> outputs]))

ToolWithParams(cfg, preds, got) ==
    IF got.exc # "" THEN got
    ELSE Returned([config |-> cfg, params |-> got.val.params,
                   predecessors |-> preds, outputs |-> got.val.outputs])

ToolWithPreds(d, config, cfg, preds) ==
    IF preds.exc # "" THEN preds
    ELSE ToolWithParams(cfg, preds.val,
                        InitParams(d, config, cfg.ToolID, InitOutputs(d, config, cfg.ToolID)))

ToolFilled(d, config, filled) ==
    IF filled.exc # "" THEN filled
    ELSE ToolWithPreds(d, config, filled.val,
                       InitPredecessors(d, config, filled.val.ToolID))

\* Tool.__init__ and Tool.configure: the new object, or an error.
ToolNew(d, config, id) ==
    ToolFilled(d, config, FillConfig(d, "Tools", "ToolID", config.fields, id, "Name"))

(***************************************************************************)
(* Tool.commit.  A world is [db, clock, tool].                             *)
(***************************************************************************)
\* "If there's no unique ID, then create one", and "Commit the tool".
CommitTool(d, c, tool) ==
    IF Truthy(tool.config.ToolID)
    THEN [db |-> SetRow(d, "Tools", tool.config, "ToolID"), clock |-> c, tool |-> tool]
    ELSE [db |-> SetRow(d, "Tools", [tool.config EXCEPT !.ToolID = Uuid1(c)], "ToolID"),
          clock |-> c + 1,
          tool |-> [tool EXCEPT !.config.ToolID = Uuid1(c)]]

\* "Commit the parameters."
CommitParamDone(w, i, pc) ==
    [db |-> pc.db, clock |-> pc.clock, tool |-> [w.tool EXCEPT !.params[i] = pc.param]]

RECURSIVE CommitParams(_, _)
CommitParams(w, i) ==
    IF i > Len(w.tool.params) THEN w
    ELSE CommitParams(
             CommitParamDone(w, i, ParamCommit(w.db, w.clock, w.tool.params[i],
                                               w.tool.config.ToolID)),
             i + 1)

\* "Commit the predecessors": those the store does not have yet.
PredRow(w, pred_id) ==
    [RelationshipID |-> Uuid1(w.clock), ToolID |-> w.tool.config.ToolID,
     PredecessorID |-> pred_id]

RECURSIVE CommitPreds(_, _, _)
CommitPreds(w, db_preds, i) ==
    IF i > Len(w.tool.predecessors) THEN w
    ELSE IF w.tool.predecessors[i].ToolID \in db_preds THEN CommitPreds(w, db_preds, i + 1)
    ELSE CommitPreds(
             [w EXCEPT !.db = SetRow(@, "ToolPredecessors",
                                     PredRow(w, w.tool.predecessors[i].ToolID),
                                     "RelationshipID"),
                       !.clock = @ + 1],
             db_preds, i + 1)

\* "Commit the outputs": the row of that name is replaced, else added.
OutputRow(w, i, hits) ==
    [OutputID |-> IF hits # <<>> THEN hits[1].OutputID ELSE Uuid1(w.clock),
     ToolID |-> w.tool.config.ToolID, OutputOrder |-> Num(i - 1),
     Name |-> w.tool.outputs[i]]

CommitOutput(w, i, hits) ==
    [w EXCEPT !.db = SetRow(@, "ToolOutputs", OutputRow(w, i, hits), "OutputID"),
              !.clock = IF hits # <<>> THEN @ ELSE @ + 1]

RECURSIVE CommitOutputs(_, _, _)
CommitOutputs(w, output_rows, i) ==
    LET named(r) == r.Name = w.tool.outputs[i]
    IN  IF i > Len(w.tool.outputs) THEN w
        ELSE CommitOutputs(CommitOutput(w, i, SelectSeq(output_rows, named)),
                           output_rows, i + 1)

\* The rows the store has for the tool, read before the loop writes.
StoredFor(w, table) == QueryEq(w.db, table, "ToolID", w.tool.config.ToolID)

PredsCommitted(w) ==
    CommitPreds(w, {r.PredecessorID : r \in Range(StoredFor(w, "ToolPredecessors"))}, 1)

OutputsCommitted(w) == CommitOutputs(w, StoredFor(w, "ToolOutputs"), 1)

\* Tool.commit.
ToolCommit(d, c, tool) ==
    OutputsCommitted(PredsCommitted(CommitParams(CommitTool(d, c, tool), 1)))

(***************************************************************************)
(* The steps of Tool.run.  A keyword dictionary and an output mapping are  *)
(* functions from names to values; what run returns is Dict(mapping) or    *)
(* None.                                                                   *)
(***************************************************************************)
Dict(f) == <<"dict", f>>
Tuple(seq) == <<"tuple", seq>>
List(seq) == <<"list", seq>>

\* dictionary.get(key, default) of a mapping
Get(f, key, default) == IF key \in DOMAIN f THEN f[key] ELSE default

\* dictionary[key] = val of a mapping
Put(f, key, val) == [k \in DOMAIN f \cup {key} |-> IF k = key THEN val ELSE f[k]]

\* Mutant: the strings are left as they are.
CoerceNothing(val) == val

\* 'true' and 'false' in any letter case become booleans.
Coerce(val) ==
    IF IsStr(val) /\ Lower(val[2]) = "true" THEN Bool(TRUE)
    ELSE IF IsStr(val) /\ Lower(val[2]) = "false" THEN Bool(FALSE)
    ELSE val

\* feeder_tool_name = param.feeder_tool_name or default_pred_name
FeederToolNameOf(param, default_pred_name) ==
    IF Truthy(param.config.FeederToolName) THEN param.config.FeederToolName
    ELSE default_pred_name

\* if feeder_tool_name and param.feeder_param_name
HasFeeder(param, default_pred_name) ==
    /\ Truthy(FeederToolNameOf(param, default_pred_name))
    /\ Truthy(param.config.FeederParamName)

\* param.value = pred_outputs[feeder_tool_name][param.feeder_param_name]
FedFrom(d, param, feeder, feeder_params) ==
    IF feeder_params[1] # "dict" THEN Raised("TypeError", "not subscriptable")
    ELSE IF param.config.FeederParamName \notin DOMAIN feeder_params[2]
    THEN Raised("ClothoToolError",
                <<"Feeder parameter not found", param.config.FeederParamName, feeder>>)
    ELSE ParamSetRaw(d, param, feeder_params[2][param.config.FeederParamName])

\* Mutant: a feeder that is missing leaves the parameter as it is.
FedLenient(d, param, pred_outputs, default_pred_name) ==
    IF /\ HasFeeder(param, default_pred_name)
       /\ FeederToolNameOf(param, default_pred_name) \in DOMAIN pred_outputs
       /\ param.config.FeederParamName \in
              DOMAIN pred_outputs[FeederToolNameOf(param, default_pred_name)][2]
    THEN ParamSetRaw(d, param,
                     pred_outputs[FeederToolNameOf(param, default_pred_name)][2]
                         [param.config.FeederParamName])
    ELSE Returned(param)

\* The error messages name the feeder: <<text, feeder tool>> and <<text,
\* feeder parameter, feeder tool>>.
Fed(d, param, pred_outputs, default_pred_name) ==
    IF ~HasFeeder(param, default_pred_name) THEN Returned(param)
    ELSE IF FeederToolNameOf(param, default_pred_name) \notin DOMAIN pred_outputs
    THEN Raised("ClothoToolError",
                <<"Feeder tool not found", FeederToolNameOf(param, default_pred_name)>>)
    ELSE FedFrom(d, param, FeederToolNameOf(param, default_pred_name),
                 pred_outputs[FeederToolNameOf(param, default_pred_name)])

\* val = kwargs.get(name, param.value) or param.value
InputValue(kwargs, name, value) ==
    IF Truthy(Get(kwargs, name, value)) THEN Get(kwargs, name, value) ELSE value

(***************************************************************************)
(* Tool.update_inputs.  A world is [db, clock, tool, kwargs, res]; res is  *)
(* the error that ended the loop, if any.                                  *)
(***************************************************************************)
IORecorded(w, i, kwargs, rec) ==
    [db |-> rec.db, clock |-> rec.clock,
     tool |-> [w.tool EXCEPT !.params[i] = rec.param],
     kwargs |-> kwargs, res |-> rec.res]

InputResolved(w, i, activity_id, param, val) ==
    IORecorded(w, i, Put(w.kwargs, param.name, val),
               RecordIO(w.db, w.clock, param, activity_id, val, w.tool.config.ToolID))

InputRead(w, i, activity_id, param, value) ==
    IF value.exc # "" THEN [w EXCEPT !.res = value]
    ELSE InputResolved(w, i, activity_id, param,
                       Coerce(InputValue(w.kwargs, param.name, value.val)))

InputFed(w, i, activity_id, fed) ==
    IF fed.exc # "" THEN [w EXCEPT !.res = fed]
    ELSE InputRead(w, i, activity_id, fed.val, ParamValue(w.db, fed.val))

RECURSIVE UpdateInputs(_, _, _, _, _)
UpdateInputs(w, i, activity_id, pred_outputs, default_pred_name) ==
    IF w.res.exc # "" \/ i > Len(w.tool.params) THEN w
    ELSE IF ~Truthy(w.tool.params[i].config.IsInput)
    THEN UpdateInputs(w, i + 1, activity_id, pred_outputs, default_pred_name)
    ELSE UpdateInputs(
             InputFed(w, i, activity_id,
                      Fed(w.db, w.tool.params[i], pred_outputs, default_pred_name)),
             i + 1, activity_id, pred_outputs, default_pred_name)

(***************************************************************************)
(* Tool.update_outputs, over the same world.                               *)
(***************************************************************************)
OutputRead(w, i, activity_id, param, value) ==
    IF value.exc # "" THEN [w EXCEPT !.res = value]
    ELSE IORecorded(w, i, w.kwargs,
                    RecordIO(w.db, w.clock, param, activity_id,
                             Coerce(Get(w.kwargs, param.name, value.val)),
                             w.tool.config.ToolID))

OutputSet(w, i, activity_id, set) ==
    IF set.exc # "" THEN [w EXCEPT !.res = set]
    ELSE OutputRead(w, i, activity_id, set.val, ParamValue(w.db, set.val))

\* if name in output_dict: param.value = output_dict[name]
OutputAssigned(d, param, output_dict) ==
    IF param.name \in DOMAIN output_dict
    THEN ParamSetRaw(d, param, output_dict[param.name])
    ELSE Returned(param)

RECURSIVE UpdateOutputs(_, _, _, _)
UpdateOutputs(w, i, activity_id, output_dict) ==
    IF w.res.exc # "" \/ i > Len(w.tool.params) THEN w
    ELSE IF Truthy(w.tool.params[i].config.IsInput)
    THEN UpdateOutputs(w, i + 1, activity_id, output_dict)
    ELSE UpdateOutputs(
             OutputSet(w, i, activity_id,
                       OutputAssigned(w.db, w.tool.params[i], output_dict)),
             i + 1, activity_id, output_dict)

(***************************************************************************)
(* The Activity row, the batches and the output mapping.                   *)
(***************************************************************************)
\* utils.get_time_string of a datetime and of a timedelta
TimeString(t) == Str("t" \o ToString(t))
DurationString(t) == Str("d" \o ToString(t))

\* Mutant: the activity is not recorded when it starts.
StartActivityUnrecorded(d, start_time, tool, activity_id) == d

\* Mutant: a tool has one row of Activity, that of its last start.
StartActivityOfTool(d, start_time, tool, activity_id) ==
    SetRow(d, "Activity",
           [ActivityID |-> activity_id, ToolID |-> tool.config.ToolID,
            ToolName |-> tool.config.Name, ToolPath |-> tool.config.Path,
            StartTime |-> TimeString(start_time)],
           "ToolID")

\* Tool.start_activity, the clock reading start_time.
StartActivity(d, start_time, tool, activity_id) ==
    SetRow(d, "Activity",
           [ActivityID |-> activity_id, ToolID |-> tool.config.ToolID,
            ToolName |-> tool.config.Name, ToolPath |-> tool.config.Path,
            StartTime |-> TimeString(start_time)],
           "ActivityID")

\* Mutant: the message is recorded as it is.
KeepQuotes(s) == s

\* message.replace("'", '"') on the messages of the model
ReplaceQuotes(s) == IF s = "can't" THEN "can\"t" ELSE s

EndMessage(message) ==
    IF message = None THEN Returned(None)
    ELSE IF ~IsStr(message) THEN Raised("AttributeError", "replace")
    ELSE Returned(Str(ReplaceQuotes(message[2])))

\* Tool.end_activity after the message is prepared, the clock reading
\* end_time.
EndActivity(d, end_time, start_time, activity_id, succeeded, message) ==
    Update(d, "Activity", "ActivityID", activity_id,
           [EndTime |-> TimeString(end_time),
            Duration |-> DurationString(end_time - start_time),
            Succeeded |-> Bool(succeeded), Message |-> message])

\* batch_ids = output_dict.get('batch_ids', output_dict.get('batch_id')),
\* as the list that write_batches walks.
BatchIds(output_dict) ==
    Get(output_dict, Str("batch_ids"), Get(output_dict, Str("batch_id"), None))

BatchList(batch_ids) ==
    IF batch_ids = None THEN <<>>
    ELSE IF batch_ids[1] = "list" THEN batch_ids[2]
    ELSE <<batch_ids>>

\* Tool.write_batches: [db, clock] afterwards.
RECURSIVE WriteBatches(_, _, _, _)
WriteBatches(w, batch_ids, i, activity_id) ==
    IF i > Len(batch_ids) THEN w
    ELSE WriteBatches(
             [db |-> SetRow(w.db, "BatchActivity",
                            [RelationshipID |-> Uuid1(w.clock),
                             BatchID |-> batch_ids[i], ActivityID |-> activity_id],
                            "RelationshipID"),
              clock |-> w.clock + 1],
             batch_ids, i + 1, activity_id)

\* None is no value, a tuple is its values, anything else is one value.
AsTuple(output) ==
    IF output = None THEN <<>>
    ELSE IF output[1] = "tuple" THEN output[2]
    ELSE <<output>>

Min(a, b) == IF a < b THEN a ELSE b

\* Mutant: the values are paired with the names from the last one back.
ZipReversed(outputs, output_tuple) ==
    [name \in {outputs[i] : i \in 1..Min(Len(outputs), Len(output_tuple))} |->
        output_tuple[Len(output_tuple) + 1 -
                     (CHOOSE i \in 1..Min(Len(outputs), Len(output_tuple)) :
                          outputs[i] = name)]]

\* dict(zip(self.outputs, output_tuple)): a name that occurs twice keeps
\* its last value.
Zip(outputs, output_tuple) ==
    [name \in {outputs[i] : i \in 1..Min(Len(outputs), Len(output_tuple))} |->
        output_tuple[CHOOSE i \in 1..Min(Len(outputs), Len(output_tuple)) :
                         /\ outputs[i] = name
                         /\ \A j \in (i + 1)..Min(Len(outputs), Len(output_tuple)) :
                                outputs[j] # name]]

\* importlib.import_module and getattr on the Path of the tool.
Loadable == {"mod.get_data", "mod.check", "mod.crunch"}

LoadTarget(path) ==
    IF IsStr(path) /\ path[2] \in Loadable THEN Returned(path)
    ELSE Raised("ImportError", "target not found")

(***************************************************************************)
(* Resource.commit, Tool.delete and Clotho.delete_tool.                    *)
(***************************************************************************)
\* Resource.commit: [db, clock, obj] afterwards.
ResourceCommit(d, c, obj) ==
    IF Truthy(obj.config.ResourceID)
    THEN [db |-> SetRow(d, "Resources", obj.config, "ResourceID"), clock |-> c, obj |-> obj]
    ELSE [db |-> SetRow(d, "Resources", [obj.config EXCEPT !.ResourceID = Uuid1(c)],
                        "ResourceID"),
          clock |-> c + 1,
          obj |-> [obj EXCEPT !.config.ResourceID = Uuid1(c)]]

\* SQLiteDB.delete_row: DELETE FROM table WHERE key = 'value'.
DeleteRow(d, table, key, value) ==
    LET keep(r) == r[key] # value
    IN  [d EXCEPT ![table] = SelectSeq(@, keep)]

\* Mutant: the activities of the tool go with it.
ToolDeleteWithLedger(d, tool) ==
    IF ~Truthy(tool.config.ToolID) THEN d
    ELSE DeleteRow(DeleteRow(DeleteRow(DeleteRow(DeleteRow(d, "Tools", "ToolID",
                                                           tool.config.ToolID),
                                                 "ToolParams", "ToolID", tool.config.ToolID),
                                       "ToolOutputs", "ToolID", tool.config.ToolID),
                             "ToolPredecessors", "ToolID", tool.config.ToolID),
                   "Activity", "ToolID", tool.config.ToolID)

\* Tool.delete: a tool without an identifier is left alone.
ToolDelete(d, tool) ==
    IF ~Truthy(tool.config.ToolID) THEN d
    ELSE DeleteRow(DeleteRow(DeleteRow(DeleteRow(d, "Tools", "ToolID", tool.config.ToolID),
                                       "ToolParams", "ToolID", tool.config.ToolID),
                             "ToolOutputs", "ToolID", tool.config.ToolID),
                   "ToolPredecessors", "ToolID", tool.config.ToolID)

\* Clotho.delete_tool: tool = Tool(db, {'Name': tool_name}, tool_id);
\* tool.delete().  [db, res] afterwards.
DeleteToolMade(d, made) ==
    IF made.exc # "" THEN [db |-> d, res |-> made]
    ELSE [db |-> ToolDelete(d, made.val), res |-> Returned(None)]

DeleteTool(d, tool_name, tool_id) ==
    DeleteToolMade(d, ToolNew(d, [fields |-> << <<"Name", tool_name>> >>], tool_id))

\* for id in df[column].unique(): self._db.delete_row(table, column, id)
RECURSIVE DeleteEach(_, _, _, _, _)
DeleteEach(d, table, column, rows, i) ==
    IF i > Len(rows) THEN d
    ELSE DeleteEach(DeleteRow(d, table, column, rows[i][column]), table, column, rows, i + 1)

\* ClothoDB.get with the query  ToolID = '{}' AND Name = '{}'.
QueryToolAndName(d, table, tool_id, name) ==
    LET hit(r) == r.ToolID = Str(StrOf(tool_id)) /\ r.Name = Str(StrOf(name))
    IN  SelectSeq(d[table], hit)

\* Mutant: only the first of the rows found is deleted.
DeleteNamedFirst(d, tool, table, column, name) ==
    IF ~Truthy(tool.config.ToolID) THEN d
    ELSE IF QueryToolAndName(d, table, tool.config.ToolID, name) = <<>> THEN d
    ELSE DeleteRow(d, table, column,
                   QueryToolAndName(d, table, tool.config.ToolID, name)[1][column])

\* Tool.delete_output (table ToolOutputs, column OutputID) and
\* Tool.delete_param (table ToolParams, column ParamID): a tool without an
\* identifier and a name without rows are left alone.
DeleteNamed(d, tool, table, column, name) ==
    IF ~Truthy(tool.config.ToolID) THEN d
    ELSE IF QueryToolAndName(d, table, tool.config.ToolID, name) = <<>> THEN d
    ELSE DeleteEach(d, table, column,
                    QueryToolAndName(d, table, tool.config.ToolID, name), 1)

ToolDeleteOutput(d, tool, output_name) ==
    DeleteNamed(d, tool, "ToolOutputs", "OutputID", output_name)

ToolDeleteParam(d, tool, param_name) ==
    DeleteNamed(d, tool, "ToolParams", "ParamID", param_name)

(***************************************************************************)
(* Spec: one call of Tool.run on a tool constructed from the store or from *)
(* a configuration.  A frame of the stack is one activation of run; the    *)
(* ledger keeps an event [ev, frame, val] for every activation entered     *)
(* ("run"), target invoked ("invoke"), activation returned ("ret") and     *)
(* error raised ("raise").                                                 *)
(***************************************************************************)
NewFrame(serial, caller, tool, kwargs) ==
    [serial |-> serial, caller |-> caller, tool |-> tool, kwargs |-> kwargs,
     pc |-> "enter", i |-> 1, pred_outputs |-> <<>>, last_pred |-> None,
     activity_id |-> None, start_time |-> 0, output_dict |-> <<>>]

Event(ev, frame, val) == [ev |-> ev, frame |-> frame, val |-> val]

Top == stack[Len(stack)]
Rest == SubSeq(stack, 1, Len(stack) - 1)

\* The number of activations entered so far.
Entered(led) == Cardinality({i \in 1..Len(led) : led[i].ev = "run"})

\* What the target of a tool may do when it is called: raise an exception
\* (SystemExit is not an Exception), or return nothing, one value or a
\* tuple of values.
TargetOutcomes ==
    { [kind |-> "raise", cls |-> "ValueError", val |-> Str("boom")],
      [kind |-> "raise", cls |-> "KeyError", val |-> Str("can't")],
      [kind |-> "raise", cls |-> "SystemExit", val |-> Str("bye")],
      [kind |-> "return", cls |-> "", val |-> None],
      [kind |-> "return", cls |-> "", val |-> Str("a1")],
      [kind |-> "return", cls |-> "", val |-> Str("FALSE")],
      [kind |-> "return", cls |-> "", val |-> Tuple(<<Str("a1"), Str("a2")>>)],
      [kind |-> "return", cls |-> "", val |->
          Tuple(<<Num(0), List(<<Str("b1"), Str("b2")>>), Str("a3")>>)] }

\* except Exception
IsException(cls) == cls # "SystemExit"

\* Mutant: a predecessor's failure is not noticed.
NeverFailed(pred_result) == FALSE

\* Mutant: a predecessor that returned no outputs counts as failed.
PredecessorEmptyFailed(pred_result) == pred_result = None \/ pred_result = Dict(<<>>)

\* if result is None
PredecessorFailed(pred_result) == pred_result = None

\* pred_outputs[pred.name] = result, and the loop moves on.
Received(frame, pred_name, pred_result) ==
    [frame EXCEPT !.pred_outputs = Put(@, pred_name, pred_result),
                  !.last_pred = pred_name, !.i = @ + 1]

\* An activation returns pred_result to the activations below it: a caller
\* whose predecessor failed returns None in its turn.
RECURSIVE Deliver(_, _, _, _)
Deliver(st, pred_name, pred_result, led) ==
    IF st = <<>>
    THEN [stack |-> <<>>, result |-> Returned(pred_result), ledger |-> led]
    ELSE IF PredecessorFailed(pred_result)
    THEN Deliver(SubSeq(st, 1, Len(st) - 1), st[Len(st)].tool.config.Name, None,
                 Append(led, Event("ret", st[Len(st)], None)))
    ELSE [stack |-> [st EXCEPT ![Len(st)] = Received(@, pred_name, pred_result)],
          result |-> NoResult, ledger |-> led]

\* return value, from the innermost activation
Return(val) ==
    LET after == Deliver(Rest, Top.tool.config.Name, val,
                         Append(ledger, Event("ret", Top, val)))
    IN  stack' = after.stack /\ result' = after.result /\ ledger' = after.ledger

\* An error nothing catches ends every activation.
Raise(exc) ==
    /\ stack' = <<>>
    /\ result' = exc
    /\ ledger' = Append(ledger, Event("raise", IF stack = <<>> THEN None ELSE Top, exc))

\* The innermost activation goes on.
Goes(frame) ==
    /\ stack' = [stack EXCEPT ![Len(stack)] = frame]
    /\ UNCHANGED <<result, ledger>>

\* A run is entered; one that would nest deeper than the interpreter
\* allows is a RecursionError, which nothing catches.
Enter(made, caller, kwargs) ==
    IF made.exc # "" THEN Raise(made)
    ELSE IF Len(stack) >= MaxDepth
    THEN Raise(Raised("RecursionError", "maximum recursion depth exceeded"))
    ELSE /\ stack' = Append(stack, NewFrame(Entered(ledger) + 1, caller, made.val, kwargs))
         /\ ledger' = Append(ledger,
                             Event("run",
                                   NewFrame(Entered(ledger) + 1, caller, made.val, kwargs),
                                   None))
         /\ UNCHANGED result

\* tool = Tool(db, config, id); tool.run(**kwargs)
CallRun ==
    /\ call.op = "run" /\ result = NoResult /\ stack = <<>> /\ ledger = <<>>
    /\ Enter(ToolNew(db, call.config, call.id), 0, call.kwargs)
    /\ UNCHANGED <<db, call, heap, shed, clock>>

\* Mutant: the path is not looked at.
RunCheckPathSkipped ==
    /\ stack # <<>> /\ Top.pc = "enter"
    /\ Goes([Top EXCEPT !.pc = "preds"])
    /\ UNCHANGED <<db, call, heap, shed, clock>>

\* if self.path is None: raise_error(...)
RunCheckPath ==
    /\ stack # <<>> /\ Top.pc = "enter"
    /\ IF Top.tool.config.Path = None
       THEN Raise(Raised("ClothoToolError",
                         <<"Path not found for tool", Top.tool.config.Name>>))
       ELSE Goes([Top EXCEPT !.pc = "preds"])
    /\ UNCHANGED <<db, call, heap, shed, clock>>

\* run_predecessors: pred = Tool(self._db, id=pred_id); pred.run(**kwargs)
RunPredecessor ==
    /\ stack # <<>> /\ Top.pc = "preds" /\ Top.i <= Len(Top.tool.predecessors)
    /\ Enter(ToolNew(db, NoConfig, Top.tool.predecessors[Top.i].ToolID),
             Top.serial, Top.kwargs)
    /\ UNCHANGED <<db, call, heap, shed, clock>>

\* Mutant: there is never a default feeder.
NoDefaultPred(frame) == None

\* default_pred_name = pred.name if len(self.predecessors) == 1
DefaultPredName(frame) ==
    IF Len(frame.tool.predecessors) = 1 THEN frame.last_pred ELSE None

\* if not self.id: self.commit()
Committed(d, c, tool) ==
    IF Truthy(tool.config.ToolID) THEN [db |-> d, clock |-> c, tool |-> tool]
    ELSE ToolCommit(d, c, tool)

\* activity_id = str(uuid.uuid1()); self.update_inputs(...)
InputsOf(frame, w) ==
    [aid |-> Uuid1(w.clock),
     w |-> UpdateInputs([db |-> w.db, clock |-> w.clock + 1, tool |-> w.tool,
                         kwargs |-> frame.kwargs, res |-> Returned(None)],
                        1, Uuid1(w.clock), frame.pred_outputs, DefaultPredName(frame))]

InputsDone(frame, got) ==
    /\ db' = got.w.db
    /\ clock' = got.w.clock
    /\ IF got.w.res.exc # "" THEN Raise(got.w.res)
       ELSE Goes([frame EXCEPT !.tool = got.w.tool, !.kwargs = got.w.kwargs,
                               !.activity_id = got.aid, !.pc = "start"])

\* After the predecessors: commit, activity_id, update_inputs.
RunUpdateInputs ==
    /\ stack # <<>> /\ Top.pc = "preds" /\ Top.i > Len(Top.tool.predecessors)
    /\ InputsDone(Top, InputsOf(Top, Committed(db, clock, Top.tool)))
    /\ UNCHANGED <<call, heap, shed>>

\* The target is loaded, then start_activity.
RunStartActivity ==
    /\ stack # <<>> /\ Top.pc = "start"
    /\ IF LoadTarget(Top.tool.config.Path).exc # ""
       THEN Raise(LoadTarget(Top.tool.config.Path)) /\ UNCHANGED <<db, clock>>
       ELSE /\ db' = StartActivity(db, clock, Top.tool, Top.activity_id)
            /\ clock' = clock + 1
            /\ Goes([Top EXCEPT !.start_time = clock, !.pc = "invoke"])
    /\ UNCHANGED <<call, heap, shed>>

\* output_tuple = func(**kwargs), the zip, and the except clause.
Invoked(outcome) ==
    IF outcome.kind = "return"
    THEN /\ stack' = [stack EXCEPT ![Len(stack)] =
                         [Top EXCEPT !.output_dict =
                                         Zip(Top.tool.outputs, AsTuple(outcome.val)),
                                     !.pc = "batches"]]
         /\ result' = result
         /\ ledger' = Append(ledger, Event("invoke", Top, outcome))
         /\ UNCHANGED <<db, clock>>
    ELSE IF IsException(outcome.cls)
    THEN /\ db' = EndActivity(db, clock, Top.start_time, Top.activity_id, FALSE,
                              EndMessage(outcome.val).val)
         /\ clock' = clock + 1
         /\ LET after == Deliver(Rest, Top.tool.config.Name, None,
                                 <<Event("invoke", Top, outcome), Event("ret", Top, None)>>)
            IN  /\ stack' = after.stack /\ result' = after.result
                /\ ledger' = ledger \o after.ledger
    ELSE /\ stack' = <<>>
         /\ result' = Raised(outcome.cls, outcome.val)
         /\ ledger' = ledger \o <<Event("invoke", Top, outcome),
                                  Event("raise", Top, Raised(outcome.cls, outcome.val))>>
         /\ UNCHANGED <<db, clock>>

RunInvoke ==
    /\ stack # <<>> /\ Top.pc = "invoke"
    /\ \E outcome \in TargetOutcomes : Invoked(outcome)
    /\ UNCHANGED <<call, heap, shed>>

Batched(frame, w) ==
    /\ db' = w.db
    /\ clock' = w.clock
    /\ Goes([frame EXCEPT !.pc = "end"])

\* self.write_batches(batch_ids, activity_id)
RunWriteBatches ==
    /\ stack # <<>> /\ Top.pc = "batches"
    /\ Batched(Top, WriteBatches([db |-> db, clock |-> clock],
                                 BatchList(BatchIds(Top.output_dict)), 1,
                                 Top.activity_id))
    /\ UNCHANGED <<call, heap, shed>>

Ended(frame, message) ==
    IF message.exc # "" THEN Raise(message) /\ UNCHANGED <<db, clock>>
    ELSE /\ db' = EndActivity(db, clock, frame.start_time, frame.activity_id, TRUE,
                              message.val)
         /\ clock' = clock + 1
         /\ Goes([frame EXCEPT !.pc = "outputs"])

\* self.end_activity(activity_id, True, output_dict.get('message'))
RunEndActivity ==
    /\ stack # <<>> /\ Top.pc = "end"
    /\ Ended(Top, EndMessage(Get(Top.output_dict, Str("message"), None)))
    /\ UNCHANGED <<call, heap, shed>>

OutputsDone(frame, w) ==
    /\ db' = w.db
    /\ clock' = w.clock
    /\ IF w.res.exc # "" THEN Raise(w.res) ELSE Return(Dict(frame.output_dict))

\* self.update_outputs(output_dict, activity_id, kwargs); return output_dict
RunUpdateOutputs ==
    /\ stack # <<>> /\ Top.pc = "outputs"
    /\ OutputsDone(Top, UpdateOutputs([db |-> db, clock |-> clock, tool |-> Top.tool,
                                       kwargs |-> Top.kwargs, res |-> Returned(None)],
                                      1, Top.activity_id, Top.output_dict))
    /\ UNCHANGED <<call, heap, shed>>

(***************************************************************************)
(* After the run the caller loads a tool of the store again and calls one  *)
(* more operation of the engine on it, with the ledger of the run in the   *)
(* store; this caller passed no keyword argument to run.                   *)
(***************************************************************************)
AfterOps == {"commit", "delete", "delete_output", "delete_param", "record_io"}

\* tool.params[0].record_io(activity_id, 'seen', tool.id), on the first
\* activity of the ledger.
AfterRecorded(d, c, tool) ==
    IF tool.params = <<>> \/ d.Activity = <<>> THEN [db |-> d, clock |-> c]
    ELSE [db |-> RecordIO(d, c, tool.params[1], d.Activity[1].ActivityID, Str("seen"),
                          tool.config.ToolID).db,
          clock |-> RecordIO(d, c, tool.params[1], d.Activity[1].ActivityID, Str("seen"),
                             tool.config.ToolID).clock]

\* [db, clock] after the operation on the tool.
AfterDone(d, c, op, tool) ==
    CASE op = "commit" ->
           [db |-> ToolCommit(d, c, tool).db, clock |-> ToolCommit(d, c, tool).clock]
      [] op = "delete" -> [db |-> ToolDelete(d, tool), clock |-> c]
      [] op = "delete_output" -> [db |-> ToolDeleteOutput(d, tool, Str("out")), clock |-> c]
      [] op = "delete_param" -> [db |-> ToolDeleteParam(d, tool, Str("data")), clock |-> c]
      [] OTHER -> AfterRecorded(d, c, tool)

AfterMade(d, c, op, made) ==
    IF made.exc # "" THEN [db |-> d, clock |-> c] ELSE AfterDone(d, c, op, made.val)

\* tool = Tool(db, id=tool_id); tool.commit(), tool.delete(),
\* tool.delete_output('out'), tool.delete_param('data') or
\* tool.params[0].record_io(...)
CallAfter ==
    \E tool_id \in {Str("tt"), Str("tp")}, op \in AfterOps :
        /\ call.op = "run" /\ result # NoResult /\ stack = <<>>
        /\ call.kwargs = <<>>
        /\ db' = AfterMade(db, clock, op, ToolNew(db, NoConfig, tool_id)).db
        /\ clock' = AfterMade(db, clock, op, ToolNew(db, NoConfig, tool_id)).clock
        /\ call' = [op |-> "after", then |-> op, tool_id |-> tool_id, config |-> call.config,
                    id |-> call.id, kwargs |-> call.kwargs, before |-> db]
        /\ UNCHANGED <<result, heap, shed, stack, ledger>>

\* The store as the run left it.
RunDb == IF call.op = "after" THEN call.before ELSE db

(***************************************************************************)
(* The stores and calls of Spec: "Crunch Data" with none, one or two of    *)
(* the predecessors "Get Data" and "Check Data", an input fed from "Get    *)
(* Data" by name or by default, a tool without a Path, and a tool given by *)
(* a configuration that the store does not have yet.                       *)
(***************************************************************************)
MaxKwargs == 1        \* keyword arguments the caller passes to run

ToolRow(id, name, path) == [ToolID |-> id, Name |-> name, Path |-> path]

ToolParamRow(id, tool_id, name, is_input, value, feeder_tool, feeder_param) ==
    [ParamID |-> id, ToolID |-> tool_id, Name |-> name, IsInput |-> is_input,
     IsResource |-> None, IsRead |-> None, IsWrite |-> None, Value |-> value,
     FeederToolName |-> feeder_tool, FeederParamName |-> feeder_param]

ToolOutputRow(id, tool_id, order, name) ==
    [OutputID |-> id, ToolID |-> tool_id, OutputOrder |-> Num(order), Name |-> name]

ToolPredecessorRow(id, tool_id, pred_id) ==
    [RelationshipID |-> id, ToolID |-> tool_id, PredecessorID |-> pred_id]

RunStore(pred_ids, feeder_tool) ==
    [Resources |-> <<>>,
     Tools |-> <<ToolRow(Str("tp"), Str("Get Data"), Str("mod.get_data")),
                 ToolRow(Str("tq"), Str("Check Data"), Str("mod.check")),
                 ToolRow(Str("tt"), Str("Crunch Data"), Str("mod.crunch")),
                 ToolRow(Str("tn"), Str("No Path"), None)>>,
     ToolParams |->
         <<ToolParamRow(Str("p1"), Str("tp"), Str("src"), Bool(TRUE), Str("file"),
                        None, None),
           ToolParamRow(Str("p2"), Str("tp"), Str("data"), Bool(FALSE), None, None, None),
           ToolParamRow(Str("p3"), Str("tt"), Str("Input 1"), Bool(TRUE), Str("fnord"),
                        None, None),
           ToolParamRow(Str("p4"), Str("tt"), Str("data"), Bool(TRUE), Str("stale"),
                        feeder_tool, Str("data")),
           ToolParamRow(Str("p5"), Str("tt"), Str("out"), Bool(FALSE), None, None, None)>>,
     ToolPredecessors |->
         <<ToolPredecessorRow(Str("r0"), Str("tn"), Str("tp"))>> \o
         [i \in 1..Len(pred_ids) |->
             ToolPredecessorRow(Str("r" \o ToString(i)), Str("tt"), pred_ids[i])],
     ToolOutputs |-> <<ToolOutputRow(Str("o1"), Str("tp"), 0, Str("data")),
                       ToolOutputRow(Str("o3"), Str("tt"), 1, Str("batch_id")),
                       ToolOutputRow(Str("o2"), Str("tt"), 0, Str("out"))>>,
     Activity |-> <<>>, ActivityIO |-> <<>>, BatchActivity |-> <<>>]

\* "Crunch Data" after "Get Data" and "Check Data", and "Check Data" after
\* "Get Data" as well.
DiamondStore ==
    [RunStore(<<Str("tp"), Str("tq")>>, None) EXCEPT
        !.ToolPredecessors = Append(@, ToolPredecessorRow(Str("r9"), Str("tq"), Str("tp")))]

RunStores ==
    { RunStore(pred_ids, feeder_tool) :
        pred_ids \in {<<>>, <<Str("tp")>>, <<Str("tp"), Str("tq")>>, <<Str("tp"), Str("tn")>>},
        feeder_tool \in {None, Str("Get Data")} }
    \cup {DiamondStore}

\* A tool that exists only as a configuration, its predecessor given by
\* name.
FreshConfig ==
    [fields |-> << <<"Name", Str("Fresh")>>, <<"Path", Str("mod.crunch")>> >>,
     params |-> << <<Str("Input 1"), << <<"Value", Str("fnord")>> >> >>,
                   <<Str("data"), << <<"FeederParamName", Str("data")>> >> >>,
                   <<Str("out"), << <<"IsInput", Bool(FALSE)>> >> >> >>,
     predecessors |-> << <<Str("get data"), <<>> >> >>,
     outputs |-> <<Str("out")>>]

\* "Crunch Data" with a predecessor that only the configuration declares.
DeclaringConfig ==
    [fields |-> << <<"Name", Str("Crunch Data")>> >>,
     params |-> <<>>,
     predecessors |-> << <<Str("check data"), <<>> >> >>,
     outputs |-> <<>>]

\* A tool whose Path names a target that cannot be loaded.
GoneConfig ==
    [fields |-> << <<"Name", Str("Fresh")>>, <<"Path", Str("mod.gone")>> >>,
     params |-> << <<Str("Input 1"), << <<"Value", Str("fnord")>> >> >> >>,
     predecessors |-> <<>>,
     outputs |-> <<>>]

\* The (config, id) arguments of the Tool constructor.
RunRoots(d) ==
    IF d = RunStore(<<Str("tp")>>, None)
    THEN { <<NoConfig, Str("tt")>>, <<NoConfig, Str("tn")>>, <<FreshConfig, None>>,
           <<DeclaringConfig, None>>, <<GoneConfig, None>> }
    ELSE { <<NoConfig, Str("tt")>> }

KwNames == {Str("data"), Str("Input 1")}
KwValues == {Str("mine"), Bool(FALSE), Num(0), Str(""), Str("True")}

RunKwargs ==
    UNION { [names -> KwValues] :
              names \in {S \in SUBSET KwNames : Cardinality(S) <= MaxKwargs} }

Init ==
    /\ db \in RunStores
    /\ \E root \in RunRoots(db), kwargs \in RunKwargs :
           call = [op |-> "run", config |-> root[1], id |-> root[2], kwargs |-> kwargs]
    /\ result = NoResult
    /\ heap = <<>> /\ shed = <<>> /\ stack = <<>> /\ ledger = <<>> /\ clock = 0

Next ==
    \/ CallRun
    \/ RunCheckPath
    \/ RunPredecessor
    \/ RunUpdateInputs
    \/ RunStartActivity
    \/ RunInvoke
    \/ RunWriteBatches
    \/ RunEndActivity
    \/ RunUpdateOutputs
    \/ CallAfter

Spec == Init /\ [][Next]_vars

(***************************************************************************)
(* Reading the ledger.                                                     *)
(***************************************************************************)
EventsOf(ev) == {k \in 1..Len(ledger) : ledger[k].ev = ev}

\* The run is over: run has returned or raised to the caller.
RunOver == stack = <<>> /\ result # NoResult

\* The rows of a table written under an activity.
RowsOfActivity(table, activity_id) ==
    {i \in 1..Len(RunDb[table]) : RunDb[table][i].ActivityID = activity_id}

\* The activation that called the one of event k.
CallerOf(k) == ledger[k].frame.caller

\* The predecessor of event k returned the failure signal to its caller.
PredecessorReturnedNone(k) ==
    ledger[k].ev = "ret" /\ ledger[k].val = None /\ CallerOf(k) # 0

\* The dependent tool returns the failure signal after event k.
CallerReturnsNone(k) ==
    \E j \in EventsOf("ret") :
        j > k /\ ledger[j].frame.serial = CallerOf(k) /\ ledger[j].val = None

\* The dependent tool's target is never called.
CallerNeverInvoked(k) ==
    \A j \in EventsOf("invoke") : ledger[j].frame.serial # CallerOf(k)

\* No other predecessor of the dependent tool is run after event k.
NoLaterPredecessor(k) ==
    \A j \in EventsOf("run") : j > k => ledger[j].frame.caller # CallerOf(k)

\* The dependent tool's activation has no activity, and every Activity row
\* belongs to another activation.
NoActivityOfCaller(k) ==
    /\ \A j \in 1..Len(ledger) :
           ledger[j].ev # "raise" /\ ledger[j].frame.serial = CallerOf(k)
               => ledger[j].frame.activity_id = None
    /\ \A i \in 1..Len(RunDb.Activity) :
           \E j \in EventsOf("invoke") :
               /\ ledger[j].frame.activity_id = RunDb.Activity[i].ActivityID
               /\ ledger[j].frame.serial # CallerOf(k)

\* C1: if a predecessor P of T returns None during T.run, then T.run
\* returns None, T's target is never called, no predecessor declared after
\* P is run, and no Activity row is written for T in that run.
C1_PredecessorFailure ==
    \A k \in 1..Len(ledger) :
        PredecessorReturnedNone(k)
            => /\ CallerReturnsNone(k)
               /\ CallerNeverInvoked(k)
               /\ NoLaterPredecessor(k)
               /\ NoActivityOfCaller(k)

\* The first of two predecessors failed, and the run returned None.
C1_Witness ==
    /\ RunOver
    /\ result = Returned(None)
    /\ Len(ledger[1].frame.tool.predecessors) = 2
    /\ \E k \in 1..Len(ledger) :
           /\ PredecessorReturnedNone(k)
           /\ CallerOf(k) = 1
           /\ ledger[k].frame.tool.config.ToolID = Str("tp")
    /\ RunDb.Activity # <<>>

(***************************************************************************)
(* Inputs: what the target is called with, and what ActivityIO records.    *)
(***************************************************************************)
\* The keyword arguments the activation of event k was called with.
SuppliedKwargs(k) ==
    ledger[CHOOSE j \in EventsOf("run") :
               ledger[j].frame.serial = ledger[k].frame.serial].frame.kwargs

\* The input parameters of the activation of event k that have a feeder
\* binding whose feeder and output name exist.
BoundInputs(k) ==
    {p \in 1..Len(ledger[k].frame.tool.params) :
        /\ Truthy(ledger[k].frame.tool.params[p].config.IsInput)
        /\ HasFeeder(ledger[k].frame.tool.params[p], DefaultPredName(ledger[k].frame))}

UnboundInputs(k) ==
    {p \in 1..Len(ledger[k].frame.tool.params) :
        /\ Truthy(ledger[k].frame.tool.params[p].config.IsInput)
        /\ ~HasFeeder(ledger[k].frame.tool.params[p], DefaultPredName(ledger[k].frame))}

\* The value the predecessor's output mapping holds for parameter p.
FeederValue(k, p) ==
    ledger[k].frame.pred_outputs
        [FeederToolNameOf(ledger[k].frame.tool.params[p], DefaultPredName(ledger[k].frame))]
        [2][ledger[k].frame.tool.params[p].config.FeederParamName]

\* Parameter p of the activation of event k was passed to the target as
\* val, and recorded in ActivityIO as val; a string 'true' or 'false' is
\* passed and recorded as its boolean.
PassedAndRecorded(k, p, value) ==
    LET val == IF value[1] = "str" /\ Lower(value[2]) \in {"true", "false"}
               THEN Bool(Lower(value[2]) = "true") ELSE value
    IN
    /\ ledger[k].frame.tool.params[p].name \in DOMAIN ledger[k].frame.kwargs
    /\ ledger[k].frame.kwargs[ledger[k].frame.tool.params[p].name] = val
    /\ \E i \in RowsOfActivity("ActivityIO", ledger[k].frame.activity_id) :
           RunDb.ActivityIO[i].ParamID = ledger[k].frame.tool.params[p].config.ParamID
    /\ \A i \in RowsOfActivity("ActivityIO", ledger[k].frame.activity_id) :
           RunDb.ActivityIO[i].ParamID = ledger[k].frame.tool.params[p].config.ParamID
               => RunDb.ActivityIO[i].Value = val

\* C3: an input parameter that has a feeder binding is passed to the
\* target, and recorded in ActivityIO, with the value of the predecessor's
\* output mapping, whatever keyword arguments the caller supplied.
C3_FeederValuePassed ==
    \A k \in EventsOf("invoke") :
        \A p \in BoundInputs(k) : PassedAndRecorded(k, p, FeederValue(k, p))

\* The same, for the activations whose caller supplied no keyword argument
\* of the parameter's name.
C3_FeederValuePassedUnlessSupplied ==
    \A k \in EventsOf("invoke") :
        \A p \in BoundInputs(k) :
            ledger[k].frame.tool.params[p].name \notin DOMAIN SuppliedKwargs(k)
                => PassedAndRecorded(k, p, FeederValue(k, p))

\* The value the store holds for parameter p of the activation of event k.
PersistedValue(k, p) ==
    (CHOOSE r \in Range(RunDb.ToolParams) :
         r.ParamID = ledger[k].frame.tool.params[p].config.ParamID).Value

\* C4: an input parameter without a feeder binding is passed to the target
\* and recorded with the keyword argument the caller supplied under its
\* name, whatever its value, and with its persisted value only when none
\* was supplied.
C4_SuppliedValuePassed ==
    \A k \in EventsOf("invoke") :
        \A p \in UnboundInputs(k) :
            IF ledger[k].frame.tool.params[p].name \in DOMAIN SuppliedKwargs(k)
            THEN PassedAndRecorded(k, p,
                     SuppliedKwargs(k)[ledger[k].frame.tool.params[p].name])
            ELSE PassedAndRecorded(k, p, PersistedValue(k, p))

\* The same, for the supplied values that are true in a condition.
C4_TruthySuppliedValuePassed ==
    \A k \in EventsOf("invoke") :
        \A p \in UnboundInputs(k) :
            IF ledger[k].frame.tool.params[p].name \in DOMAIN SuppliedKwargs(k)
            THEN Truthy(SuppliedKwargs(k)[ledger[k].frame.tool.params[p].name])
                     => PassedAndRecorded(k, p,
                            SuppliedKwargs(k)[ledger[k].frame.tool.params[p].name])
            ELSE PassedAndRecorded(k, p, PersistedValue(k, p))

(***************************************************************************)
(* A target that raises.                                                   *)
(***************************************************************************)
\* The target of event k raised an exception that "except Exception"
\* catches.
TargetRaised(k) ==
    ledger[k].ev = "invoke" /\ ledger[k].val.kind = "raise"

TargetRaisedException(k) ==
    TargetRaised(k) /\ ledger[k].val.cls \in {"ValueError", "KeyError"}

\* The Activity row of event k, if it is there.
ActivityRows(k) == RowsOfActivity("Activity", ledger[k].frame.activity_id)

\* The activation of event k returned None and raised nothing.
ReturnedNone(k) ==
    /\ \E j \in EventsOf("ret") :
           j > k /\ ledger[j].frame.serial = ledger[k].frame.serial /\ ledger[j].val = None
    /\ EventsOf("raise") = {}
    /\ RunOver /\ result = Returned(None)

\* The Activity row of event k has an end time, Succeeded = false and the
\* message.
FailureRecorded(k, message) ==
    /\ Cardinality(ActivityRows(k)) = 1
    /\ \A i \in ActivityRows(k) :
           /\ RunDb.Activity[i].EndTime # None
           /\ RunDb.Activity[i].Succeeded = Bool(FALSE)
           /\ RunDb.Activity[i].Message = message

\* No output ActivityIO row and no BatchActivity row of the activity of
\* event k.
NoOutputsWritten(k) ==
    /\ \A i \in RowsOfActivity("ActivityIO", ledger[k].frame.activity_id) :
           Truthy(RunDb.ActivityIO[i].IsInput)
    /\ RowsOfActivity("BatchActivity", ledger[k].frame.activity_id) = {}

\* The message with a double quote for every single quote.
DoubleQuoted(message) ==
    IF message = Str("can't") THEN Str("can\"t") ELSE message

\* C5 as stated: whatever the target raises is kept from the caller, and
\* the Activity row carries the exception's message.
C5_TargetFailure_AsStated ==
    \A k \in 1..Len(ledger) :
        TargetRaised(k)
            => /\ ReturnedNone(k)
               /\ FailureRecorded(k, ledger[k].val.val)
               /\ NoOutputsWritten(k)

\* C5: if the target raises an Exception, run returns None and raises
\* nothing, the Activity row of the run gets an end time, Succeeded = false
\* and the exception's message with its single quotes replaced by double
\* quotes, and no output ActivityIO row and no BatchActivity row is written
\* for the activity.
C5_TargetFailure ==
    \A k \in 1..Len(ledger) :
        TargetRaisedException(k)
            => /\ ReturnedNone(k)
               /\ FailureRecorded(k, DoubleQuoted(ledger[k].val.val))
               /\ NoOutputsWritten(k)

\* A target raised a message with a single quote in it, after a
\* predecessor succeeded.
C5_Witness ==
    /\ RunOver
    /\ \E k \in 1..Len(ledger) :
           /\ TargetRaisedException(k)
           /\ ledger[k].val.val = Str("can't")
           /\ ledger[k].frame.serial = 1
           /\ ledger[k].frame.pred_outputs # <<>>
           /\ \E i \in ActivityRows(k) : RunDb.Activity[i].Message = Str("can\"t")

(***************************************************************************)
(* The output mapping.                                                     *)
(***************************************************************************)
\* The invocation of the activation that returns at event k.
InvocationOf(k) ==
    ledger[CHOOSE j \in EventsOf("invoke") :
               ledger[j].frame.serial = ledger[k].frame.serial]

Distinct(seq) == \A i, j \in 1..Len(seq) : seq[i] = seq[j] => i = j

\* The mapping pairs the i-th of the values with the i-th of the names.
Positional(mapping, names, values) ==
    /\ \A i \in 1..Len(names) :
           IF i <= Len(values)
           THEN names[i] \in DOMAIN mapping /\ mapping[names[i]] = values[i]
           ELSE names[i] \notin DOMAIN mapping
    /\ DOMAIN mapping \subseteq Range(names)

\* C6: the output mapping run returns pairs the i-th returned value with
\* the i-th declared output name; one value that is not a tuple is one
\* output; values beyond the names are dropped, and names beyond the values
\* are absent.
C6_PositionalOutputs ==
    \A k \in EventsOf("ret") :
        /\ ledger[k].val # None
        /\ InvocationOf(k).val.val # None
        /\ Distinct(ledger[k].frame.tool.outputs)
        => Positional(ledger[k].val[2], ledger[k].frame.tool.outputs,
                      IF InvocationOf(k).val.val[1] = "tuple"
                      THEN InvocationOf(k).val.val[2]
                      ELSE <<InvocationOf(k).val.val>>)

\* Three values for two names, after one value for one name.
C6_Witness ==
    /\ RunOver
    /\ result = Returned(Dict([n \in {Str("out"), Str("batch_id")} |->
                                 IF n = Str("out") THEN Num(0)
                                 ELSE List(<<Str("b1"), Str("b2")>>)]))
    /\ \E k \in EventsOf("ret") :
           /\ ledger[k].frame.serial = 2
           /\ InvocationOf(k).val.val = Str("a1")
           /\ ledger[k].val = Dict([n \in {Str("data")} |-> Str("a1")])

(***************************************************************************)
(* A tool and its one predecessor, both succeeding.                        *)
(***************************************************************************)
\* The rows of Activity of a tool.
ActivityOfTool(tool_id) ==
    {i \in 1..Len(RunDb.Activity) : RunDb.Activity[i].ToolID = tool_id}

\* The rows of ActivityIO of a parameter.
IOOfParam(param_id) ==
    {i \in 1..Len(RunDb.ActivityIO) : RunDb.ActivityIO[i].ParamID = param_id}

\* The tool that returns at event k has one Activity row, which succeeded,
\* and one ActivityIO row for each of its parameters, under that activity.
OneActivityWithItsIO(k) ==
    /\ Cardinality(ActivityOfTool(ledger[k].frame.tool.config.ToolID)) = 1
    /\ \A i \in ActivityOfTool(ledger[k].frame.tool.config.ToolID) :
           /\ RunDb.Activity[i].Succeeded = Bool(TRUE)
           /\ RunDb.Activity[i].EndTime # None
           /\ RunDb.Activity[i].ActivityID # None
           /\ \A p \in 1..Len(ledger[k].frame.tool.params) :
                  /\ Cardinality(IOOfParam(ledger[k].frame.tool.params[p].config.ParamID)) = 1
                  /\ \A j \in IOOfParam(ledger[k].frame.tool.params[p].config.ParamID) :
                         RunDb.ActivityIO[j].ActivityID = RunDb.Activity[i].ActivityID

\* Tool T with its one predecessor P has run, and both targets returned.
RanWithOnePredecessor ==
    /\ RunOver
    /\ Len(ledger[1].frame.tool.predecessors) = 1
    /\ Cardinality(EventsOf("run")) = 2
    /\ Cardinality({k \in EventsOf("invoke") : ledger[k].val.kind = "return"}) = 2

\* C7: running a tool T that has exactly one predecessor P, neither target
\* failing, adds exactly one Activity row for T and one for P, each with
\* Succeeded = true, and exactly one ActivityIO row for each parameter of
\* each tool, with the ActivityID of its own tool's Activity row.
C7_OneActivityEach ==
    RanWithOnePredecessor
        => /\ Len(RunDb.Activity) = 2
           /\ Cardinality(EventsOf("ret")) = 2
           /\ \A k \in EventsOf("ret") : OneActivityWithItsIO(k)
           /\ Len(RunDb.ActivityIO)
                  = Len(ledger[CHOOSE k \in EventsOf("ret") : ledger[k].frame.serial = 1]
                            .frame.tool.params)
                    + Len(ledger[CHOOSE k \in EventsOf("ret") : ledger[k].frame.serial = 2]
                              .frame.tool.params)

\* "Crunch Data" ran after "Get Data": two activities and five parameters.
C7_Witness ==
    /\ RanWithOnePredecessor
    /\ call.id = Str("tt")
    /\ result.val[1] = "dict"
    /\ Len(RunDb.Activity) = 2
    /\ Len(RunDb.ActivityIO) = 5
    /\ \E k \in EventsOf("ret") : ledger[k].frame.tool.config.Name = Str("Crunch Data")
    /\ \E k \in EventsOf("ret") : ledger[k].frame.tool.config.Name = Str("Get Data")

(***************************************************************************)
(* SpecCfg: the configuration objects.  The caller looks a row up, or      *)
(* constructs a Tool, a ToolParam or a Resource from a configuration or an *)
(* identifier and then commits it, more than once, or deletes it.  The     *)
(* object constructed is heap[1] = [kind, obj, commits]; call.before is    *)
(* the store before the last operation.                                    *)
(***************************************************************************)
MaxCommits == 2       \* commits of the object the caller constructed
MaxRecords == 2       \* record_io calls on the parameter the caller constructed

RowGisSame == ResourceRow(Str("r10"), Str("GIS"), Str("G2"), None)

CfgStore(resources) ==
    [RunStore(<<Str("tp")>>, None) EXCEPT !.Resources = resources]

\* The tools every store of SpecCfg starts with.
InitCfgTools == CfgStore(<<>>).Tools

\* A store in which 'Crunch Data' has run once, and in which two ToolParam
\* objects of the name 'data', made before either was committed, have both
\* been committed for it.
LedgerStore ==
    [CfgStore(<<RowProject, RowXDrive, RowGIS>>) EXCEPT
        !.ToolParams = Append(@, ToolParamRow(Str("p6"), Str("tt"), Str("data"),
                                              Bool(TRUE), Str("newer"), None, None)),
        !.Activity = <<[ActivityID |-> Str("a0"), ToolID |-> Str("tt"),
                        ToolName |-> Str("Crunch Data"), ToolPath |-> Str("mod.crunch"),
                        StartTime |-> Str("t0"), EndTime |-> Str("t1"),
                        Duration |-> Str("d1"), Succeeded |-> Bool(TRUE),
                        Message |-> None]>>,
        !.ActivityIO = <<[IOID |-> Str("i0"), ActivityID |-> Str("a0"),
                          ParamID |-> Str("p3"), ParamName |-> Str("Input 1"),
                          Value |-> Str("fnord"), IsResource |-> None,
                          IsInput |-> Bool(TRUE), IsRead |-> None, IsWrite |-> None]>>]

CfgStores ==
    { CfgStore(<<RowProject, RowXDrive, RowGIS>>),
      CfgStore(<<RowXDrive, RowGIS, RowGisTwin, RowGisSame>>),
      LedgerStore }

\* Configurations of a tool: found by name, new with an output listed
\* twice, with a predecessor that no tool has the name of, with a
\* predecessor given by identifier, and with its sections capitalised.
NamedConfig == [fields |-> << <<"name", Str("crunch data")>> >>]

TwiceConfig ==
    [fields |-> << <<"Name", Str("Twice")>>, <<"PATH", Str("mod.check")>> >>,
     params |-> << <<Str("src"), << <<"VALUE", Str("file")>> >> >> >>,
     outputs |-> <<Str("a"), Str("a")>>]

NowhereConfig ==
    [fields |-> << <<"Name", Str("Fresh")>> >>,
     predecessors |-> << <<Str("Nowhere"), <<>> >>, <<Str("Get Data"), <<>> >> >>]

ByIdConfig ==
    [fields |-> << <<"Name", Str("Fresh")>> >>,
     predecessors |-> << <<Str("Upstream"), << <<"ToolID", Str("tp")>> >> >> >>]

CapitalConfig ==
    [fields |-> << <<"Name", Str("Fresh")>>, <<"Path", Str("mod.crunch")>> >>,
     Params |-> << <<Str("data"), << <<"FeederParamName", Str("data")>> >> >> >>,
     Predecessors |-> << <<Str("Get Data"), <<>> >> >>,
     Outputs |-> <<Str("out")>>]

\* The (kind, config, id) arguments of the constructors.
CfgNewArgs ==
    { <<"tool", NoConfig, Str("tt")>>, <<"tool", NoConfig, Str("tp")>>,
      <<"tool", NoConfig, Str("TQ")>>, <<"tool", FreshConfig, None>>,
      <<"tool", NamedConfig, None>>, <<"tool", TwiceConfig, None>>,
      <<"tool", NowhereConfig, None>>, <<"tool", ByIdConfig, None>>,
      <<"tool", CapitalConfig, None>>,
      <<"tool", [fields |-> << <<"ToolID", Str("tq")>>, <<"Name", Str("get data")>> >>],
        None>>,
      <<"resource", << <<"ResourceID", Str("r2")>>, <<"Name", Str("x drive")>> >>, None>>,
      <<"param", <<>>, Str("p3")>>,
      <<"param", << <<"ToolID", Str("tt")>>, <<"name", Str("input 1")>> >>, None>>,
      <<"param", << <<"TOOLID", Str("tt")>>, <<"Name", Str("query")>>,
                    <<"value", Str("True")>> >>, None>>,
      <<"param", << <<"paramid", Str("P4")>>, <<"Value", Str("new")>> >>, None>>,
      <<"param", << <<"ParamID", Str("px")>>, <<"ToolID", Str("tt")>>,
                    <<"Name", Str("extra")>> >>, None>>,
      <<"param", << <<"Name", Str("loose")>> >>, None>>,
      <<"param", << <<"ToolID", Str("tt")>>, <<"Name", Str("data")>> >>, None>>,
      <<"resource", <<>>, Str("r2")>>,
      <<"resource", << <<"name", Str("Project Folder")>> >>, None>>,
      <<"resource", << <<"NAME", Str("maps")>>, <<"path", PathObj("m")>>,
                       <<"Parent", Str("x drive")>> >>, None>>,
      <<"resource", << <<"Name", Str("gis")>> >>, None>>,
      <<"resource", << <<"Name", Str("attic")>>, <<"Parent", Str("Missing")>> >>, None>>,
      <<"resource", << <<"Name", Str("shout")>>, <<"parent", Str("R1")>> >>, None>>,
      <<"resource", << <<"Name", Str("pond")>>, <<"Parent", Str("gis")>> >>, None>>,
      <<"resource", << <<"Name", Str("cellar")>>, <<"Path", Str("c")>>,
                       <<"Parent", Str("r1")>> >>, None>>,
      <<"record", << <<"NAME", Str("X Drive")>>, <<"Path", PathObj("Y:")>> >>, None>>,
      <<"record", << <<"RESOURCEID", Str("R2")>> >>, None>> }

\* The (op, table, key, value) arguments of the single-row lookups.
CfgLookupArgs ==
    {"get_row", "get_row_insensitive", "fill_config"} \X
    { <<"Resources", "Name", Str("GIS")>>, <<"Resources", "Name", Str("gis")>>,
      <<"Resources", "Name", Str("X Drive")>>, <<"Resources", "ResourceID", Str("R1")>>,
      <<"Resources", "ResourceID", Str("r2")>>, <<"Resources", "Name", Str("Missing")>>,
      <<"Tools", "Name", Str("get data")>>, <<"Tools", "ToolID", Str("tn")>> }

InitCfg ==
    /\ db \in CfgStores
    /\ call = [op |-> "start"]
    /\ result = NoResult
    /\ heap = <<>> /\ shed = <<>> /\ stack = <<>> /\ ledger = <<>> /\ clock = 0

\* The constructor of each kind.
CfgMake(d, kind, config, id) ==
    CASE kind = "tool" -> ToolNew(d, config, id)
      [] kind = "param" -> ParamNew(d, config, id)
      [] kind = "record" -> FillConfig(d, "Resources", "ResourceID", config, id, "Name")
      [] OTHER -> ResourceNew(d, config, id, FALSE)

CfgHeld(kind, made) ==
    IF made.exc # "" \/ kind = "record" THEN <<>>
    ELSE <<[kind |-> kind, obj |-> made.val, commits |-> 0, records |-> 0]>>

\* obj = Tool(db, config, id), ToolParam(db, config, id) or
\* Resource(db, config, id); a "record" is fill_config itself.
CfgNew ==
    \E a \in CfgNewArgs :
        /\ call.op \in {"start", "delete_tool"} /\ heap = <<>>
        /\ result' = CfgMake(db, a[1], a[2], a[3])
        /\ heap' = CfgHeld(a[1], CfgMake(db, a[1], a[2], a[3]))
        /\ call' = [op |-> "new", kind |-> a[1], config |-> a[2], id |-> a[3],
                    before |-> db]
        /\ UNCHANGED <<db, shed, stack, ledger, clock>>

\* The lookup of fill_config: the record resolved from an empty
\* configuration whose name, or the identifier, is the value sought.
CfgFound(d, op, table, key, value) ==
    CASE op = "get_row" -> GetRow(d, table, key, value)
      [] op = "get_row_insensitive" -> GetRowInsensitive(d, table, key, value)
      [] OTHER ->
           IF key = "Name"
           THEN FillConfig(d, table, IF table = "Tools" THEN "ToolID" ELSE "ResourceID",
                           << <<"Name", value>> >>, None, "Name")
           ELSE FillConfig(d, table, key, <<>>, value, "")

\* db.get_row(table, key, value), db.get_row_insensitive(table, key, value)
\* and fill_config looking a row up by identifier or by name
CfgLookup ==
    \E a \in CfgLookupArgs :
        /\ call.op = "start"
        /\ result' = CfgFound(db, a[1], a[2][1], a[2][2], a[2][3])
        /\ call' = [op |-> a[1], table |-> a[2][1], key |-> a[2][2], value |-> a[2][3],
                    before |-> db]
        /\ UNCHANGED <<db, heap, shed, stack, ledger, clock>>

\* What commit leaves, for each kind: [db, clock, obj].
CfgCommitted(d, c, held) ==
    CASE held.kind = "tool" ->
           [db |-> ToolCommit(d, c, held.obj).db, clock |-> ToolCommit(d, c, held.obj).clock,
            obj |-> ToolCommit(d, c, held.obj).tool]
      [] held.kind = "param" ->
           [db |-> ParamCommit(d, c, held.obj, Str("tt")).db,
            clock |-> ParamCommit(d, c, held.obj, Str("tt")).clock,
            obj |-> ParamCommit(d, c, held.obj, Str("tt")).param]
      [] OTHER -> ResourceCommit(d, c, held.obj)

CfgCommitDone(w) ==
    /\ db' = w.db
    /\ clock' = w.clock
    /\ heap' = <<[heap[1] EXCEPT !.obj = w.obj, !.commits = @ + 1]>>

\* obj.commit(), and param.commit('tt')
CfgCommit ==
    /\ heap # <<>> /\ call.op \in {"new", "commit"}
    /\ heap[1].commits < MaxCommits
    /\ CfgCommitDone(CfgCommitted(db, clock, heap[1]))
    /\ result' = Returned(None)
    /\ call' = [op |-> "commit", before |-> db]
    /\ UNCHANGED <<shed, stack, ledger>>

\* tool.delete()
CfgDelete ==
    /\ heap # <<>> /\ call.op \in {"new", "commit"}
    /\ heap[1].kind = "tool"
    /\ db' = ToolDelete(db, heap[1].obj)
    /\ result' = Returned(None)
    /\ call' = [op |-> "delete", before |-> db]
    /\ UNCHANGED <<heap, shed, stack, ledger, clock>>

\* clotho.delete_tool(tool_name, tool_id)
CfgDeleteTool ==
    \E a \in { <<Str("get data"), None>>, <<None, Str("tq")>>, <<Str("Fresh"), None>> } :
        /\ call.op = "start"
        /\ db' = DeleteTool(db, a[1], a[2]).db
        /\ result' = DeleteTool(db, a[1], a[2]).res
        /\ call' = [op |-> "delete_tool", tool_name |-> a[1], tool_id |-> a[2],
                    before |-> db]
        /\ UNCHANGED <<heap, shed, stack, ledger, clock>>

\* tool.delete_output(output_name)
CfgDeleteOutput ==
    \E name \in {Str("out"), Str("a"), Str("OUT"), Str("data")} :
        /\ heap # <<>> /\ call.op \in {"new", "commit"}
        /\ heap[1].kind = "tool"
        /\ db' = ToolDeleteOutput(db, heap[1].obj, name)
        /\ result' = Returned(None)
        /\ call' = [op |-> "delete_output", name |-> name, before |-> db]
        /\ UNCHANGED <<heap, shed, stack, ledger, clock>>

\* tool.delete_param(param_name)
CfgDeleteParam ==
    \E name \in {Str("data"), Str("Input 1"), Str("src"), Str("query")} :
        /\ heap # <<>> /\ call.op \in {"new", "commit"}
        /\ heap[1].kind = "tool"
        /\ db' = ToolDeleteParam(db, heap[1].obj, name)
        /\ result' = Returned(None)
        /\ call' = [op |-> "delete_param", name |-> name, before |-> db]
        /\ UNCHANGED <<heap, shed, stack, ledger, clock>>

\* The configuration a committed tool is loaded again with: its name only,
\* or nothing but its identifier.
ReloadArgs(tool) ==
    { <<[fields |-> << <<"Name", tool.config.Name>> >>], None>>,
      <<NoConfig, tool.config.ToolID>> }

\* Tool(db, {'Name': tool.name}) and Tool(db, id=tool.id) after tool.commit()
CfgReload ==
    /\ heap # <<>> /\ call.op = "commit"
    /\ heap[1].kind = "tool"
    /\ \E a \in ReloadArgs(heap[1].obj) :
           /\ result' = ToolNew(db, a[1], a[2])
           /\ call' = [op |-> "reload", config |-> a[1], id |-> a[2], before |-> db]
    /\ UNCHANGED <<db, heap, shed, stack, ledger, clock>>

CfgRecorded(w) ==
    /\ db' = w.db
    /\ clock' = w.clock
    /\ heap' = <<[heap[1] EXCEPT !.obj = w.param, !.records = @ + 1]>>
    /\ result' = w.res

\* param.record_io(activity_id, value, tool_id)
CfgRecordIO ==
    \E activity_id \in {Str("a0"), Str("a9")},
       value \in {Str("seen"), Bool(FALSE), None},
       tool_id \in {None, Str("tt")} :
        /\ heap # <<>> /\ call.op \in {"new", "commit", "record_io"}
        /\ heap[1].kind = "param"
        /\ heap[1].records < MaxRecords
        /\ CfgRecorded(RecordIO(db, clock, heap[1].obj, activity_id, value, tool_id))
        /\ call' = [op |-> "record_io", activity_id |-> activity_id, value |-> value,
                    tool_id |-> tool_id, param |-> heap[1].obj, before |-> db]
        /\ UNCHANGED <<shed, stack, ledger>>

NextCfg ==
    \/ CfgNew
    \/ CfgLookup
    \/ CfgCommit
    \/ CfgDelete
    \/ CfgDeleteTool
    \/ CfgDeleteOutput
    \/ CfgDeleteParam
    \/ CfgReload
    \/ CfgRecordIO

SpecCfg == InitCfg /\ [][NextCfg]_vars

(***************************************************************************)
(* Claims about commit.                                                    *)
(***************************************************************************)
\* The table, the identifier column and the identifier of the object held.
HeldTable ==
    CASE heap[1].kind = "tool" -> "Tools"
      [] heap[1].kind = "param" -> "ToolParams"
      [] OTHER -> "Resources"

HeldIdColumn ==
    CASE heap[1].kind = "tool" -> "ToolID"
      [] heap[1].kind = "param" -> "ParamID"
      [] OTHER -> "ResourceID"

HeldId == heap[1].obj.config[HeldIdColumn]

\* The number of rows of a table of store d whose columns c1 and c2 hold v1
\* and v2.
RowCount(d, table, c1, v1, c2, v2) ==
    Cardinality({i \in 1..Len(d[table]) : d[table][i][c1] = v1 /\ d[table][i][c2] = v2})

CommittedTwice == heap # <<>> /\ call.op = "commit" /\ heap[1].commits >= 2

C11_OneRowPerIdentifier ==
    /\ RowCount(db, HeldTable, HeldIdColumn, HeldId, HeldIdColumn, HeldId) = 1
    /\ db[HeldTable] = call.before[HeldTable]
    /\ heap[1].kind = "tool" =>
           /\ db.ToolParams = call.before.ToolParams
           /\ \A p \in Range(heap[1].obj.params) :
                  RowCount(db, "ToolParams", "ParamID", p.config.ParamID,
                           "ToolID", HeldId) = 1

C11_NoAdditionalRows ==
    heap[1].kind = "tool" =>
        /\ Len(db.ToolOutputs) = Len(call.before.ToolOutputs)
        /\ Len(db.ToolPredecessors) = Len(call.before.ToolPredecessors)
        /\ \A r \in Range(db.ToolOutputs) :
               RowCount(db, "ToolOutputs", "ToolID", r.ToolID, "Name", r.Name) =
               RowCount(call.before, "ToolOutputs", "ToolID", r.ToolID, "Name", r.Name)
        /\ \A r \in Range(db.ToolPredecessors) :
               RowCount(db, "ToolPredecessors", "ToolID", r.ToolID,
                        "PredecessorID", r.PredecessorID) =
               RowCount(call.before, "ToolPredecessors", "ToolID", r.ToolID,
                        "PredecessorID", r.PredecessorID)

LowerKeys(pairs) == [i \in 1..Len(pairs) |-> <<Lower(pairs[i][1]), pairs[i][2]>>]

\* The entries of 'params' or 'predecessors' with the keys of each entry's
\* dictionary in lower case; the names of the entries stay.
LowerEntries(entries) ==
    [i \in 1..Len(entries) |-> <<entries[i][1], LowerKeys(entries[i][2])>>]

\* The same configuration with its keys in lower case.
LowerCased(kind, config) ==
    IF kind # "tool" THEN LowerKeys(config)
    ELSE [fields |-> LowerKeys(config.fields),
          params |-> LowerEntries(SectionInsensitive(config, "params")),
          predecessors |-> LowerEntries(SectionInsensitive(config, "predecessors")),
          outputs |-> SectionInsensitive(config, "outputs")]

ResolvedAlike ==
    result = CfgMake(db, call.kind, LowerCased(call.kind, call.config), call.id)

\* C12 (as stated): a configuration and the same configuration with its
\* keys in another letter case resolve to identical records, for
\* fill_config, Resource, ToolParam and Tool.
C12_CaseInsensitiveKeys == call.op = "new" => ResolvedAlike

\* The same, for fill_config, Resource and ToolParam only.
C12_CaseInsensitiveFields == call.op = "new" /\ call.kind # "tool" => ResolvedAlike

(***************************************************************************)
(* Claims about the single-row lookups.                                    *)
(***************************************************************************)
\* The persisted rows that the lookup of the last call matches: get_row
\* compares exactly, get_row_insensitive and fill_config without regard to
\* letter case.
LookupMatches ==
    {i \in 1..Len(db[call.table]) :
        IF call.op = "get_row" THEN db[call.table][i][call.key] = call.value
        ELSE /\ db[call.table][i][call.key][1] = "str"
             /\ Lower(db[call.table][i][call.key][2]) = Lower(call.value[2])}

IsLookup == call.op \in {"get_row", "get_row_insensitive", "fill_config"}

\* The one row matched, and what fill_config resolves from it: the row with
\* the caller's spelling of the name.
MatchedRow == db[call.table][CHOOSE i \in LookupMatches : TRUE]

ResolvedFrom(row) ==
    [c \in DOMAIN row |-> IF c = call.key /\ c = "Name" THEN call.value ELSE row[c]]

\* C13: a single-row lookup that matches more than one persisted row raises
\* an error and returns none of them; one that matches exactly one row
\* returns that row, and one that matches none returns not-found, which
\* fill_config resolves to a record without an identifier.
C13_AmbiguousRowIsAnError ==
    IsLookup =>
        /\ Cardinality(LookupMatches) > 1 => result.exc = "ClothoError"
        /\ Cardinality(LookupMatches) = 1 =>
               result = Returned(IF call.op = "fill_config" THEN ResolvedFrom(MatchedRow)
                                 ELSE <<MatchedRow>>)
        /\ Cardinality(LookupMatches) = 0 =>
               /\ result.exc = ""
               /\ call.op # "fill_config" => result.val = <<>>
               /\ call.op = "fill_config" =>
                      \A c \in DOMAIN result.val :
                          result.val[c] = IF c = call.key /\ c = "Name" THEN call.value
                                          ELSE None

\* Witness of C13: get_row found two rows whose Name is exactly the one
\* sought and raised the error.
C13_Witness ==
    /\ call.op = "get_row"
    /\ call.key = "Name"
    /\ Cardinality(LookupMatches) = 2
    /\ result.exc = "ClothoError"

(***************************************************************************)
(* Claims about predecessor references and Tool.delete.                    *)
(***************************************************************************)
ToolConfigured == call.op = "new" /\ call.kind = "tool"

IsToolOf(d, id) == \E r \in Range(d.Tools) : r.ToolID = id

\* The predecessors declared for the tool of the last call: the names of
\* the configuration, and the PredecessorID of the rows of ToolPredecessors
\* for the tool's identifier.
DeclaredNames == {e[1] : e \in Range(SectionExact(call.config, "predecessors"))}

DeclaredIds ==
    {r.PredecessorID : r \in {r \in Range(db.ToolPredecessors) :
                                 r.ToolID = result.val.config.ToolID /\ r.ToolID # None}}

\* C19 (as stated): a tool is configured without error only if every
\* predecessor declared for it, by name or by identifier, is among its
\* predecessors with the identifier of an existing Tool.
C19_PredecessorsResolve ==
    ToolConfigured /\ result.exc = "" =>
        /\ \A p \in Range(result.val.predecessors) : IsToolOf(db, p.ToolID)
        /\ \A n \in DeclaredNames : \E p \in Range(result.val.predecessors) : p.Name = n
        /\ \A id \in DeclaredIds : \E p \in Range(result.val.predecessors) : p.ToolID = id

\* The half that holds: the identifiers of ToolPredecessors are those of
\* existing tools, or the configuration fails.
C19_StoredPredecessorsResolve ==
    ToolConfigured /\ result.exc = "" =>
        \A id \in DeclaredIds :
            IsToolOf(db, id) /\ \E p \in Range(result.val.predecessors) : p.ToolID = id

\* The tables that refer to tools.
ToolTables == {"Tools", "ToolParams", "ToolOutputs", "ToolPredecessors"}

RefersTo(d, id) ==
    \E t \in ToolTables : \E r \in Range(d[t]) : \E c \in DOMAIN r : r[c] = id

\* C20 (as stated): after Tool.delete on a persisted tool no row of Tools,
\* ToolParams, ToolOutputs or ToolPredecessors holds the tool's identifier
\* in any column.
C20_NoReferenceLeft ==
    /\ call.op = "delete"
    /\ IsToolOf(call.before, heap[1].obj.config.ToolID)
    => ~RefersTo(db, heap[1].obj.config.ToolID)

\* The rows of the tool itself are gone: no row holds the identifier in
\* its ToolID column.
C20_OwnRowsDeleted ==
    /\ call.op = "delete"
    /\ IsToolOf(call.before, heap[1].obj.config.ToolID)
    => \A t \in ToolTables : \A r \in Range(db[t]) : r.ToolID # heap[1].obj.config.ToolID

(***************************************************************************)
(* Claims about the failures of run before the target.                     *)
(***************************************************************************)
\* run is entered on a tool whose Path is null.
PathlessOnTop == stack # <<>> /\ Top.pc = "enter" /\ Top.tool.config.Path = None

\* The step that follows raises ClothoToolError to the caller and writes
\* nothing; no predecessor is entered.
C14_Raises ==
    PathlessOnTop =>
        /\ result'.exc = "ClothoToolError"
        /\ stack' = <<>>
        /\ db' = db
        /\ ledger' = Append(ledger, Event("raise", Top, result'))

\* An activation that went on has a Path; none was entered on behalf of a
\* tool without one, and no Activity row is of a tool without one.
C14_NeverGoesOn ==
    /\ \A i \in 1..Len(stack) : stack[i].pc # "enter" => stack[i].tool.config.Path # None
    /\ \A k \in EventsOf("run") :
           ledger[k].frame.tool.config.Path = None =>
               \A j \in 1..Len(ledger) :
                   ledger[j].ev \in {"run", "invoke"} =>
                       /\ ledger[j].frame.caller # ledger[k].frame.serial
                       /\ ledger[j].ev = "invoke" =>
                              ledger[j].frame.serial # ledger[k].frame.serial
    /\ \A r \in Range(RunDb.Activity) : r.ToolPath # None

\* C14: run on a tool whose Path is null raises ClothoToolError before any
\* predecessor is run and before any row is written.
C14_PathRequired == [][C14_Raises]_vars /\ []C14_NeverGoesOn

\* Witness of C14: a tool without a Path that has a predecessor was run as
\* the predecessor of another tool, and the run ended with the error.
C14_Witness ==
    /\ RunOver
    /\ result.exc = "ClothoToolError"
    /\ \E k \in EventsOf("run") :
           /\ ledger[k].frame.tool.config.Path = None
           /\ ledger[k].frame.tool.predecessors # <<>>
           /\ ledger[k].frame.caller # 0

\* The input parameters of a frame whose feeder is not a key of the
\* predecessor outputs, or whose feeder parameter is not a key of the
\* feeder's output mapping.
Unfed(frame) ==
    {p \in 1..Len(frame.tool.params) :
        /\ Truthy(frame.tool.params[p].config.IsInput)
        /\ HasFeeder(frame.tool.params[p], DefaultPredName(frame))
        /\ \/ FeederToolNameOf(frame.tool.params[p], DefaultPredName(frame))
                  \notin DOMAIN frame.pred_outputs
           \/ frame.tool.params[p].config.FeederParamName \notin
                  DOMAIN frame.pred_outputs
                      [FeederToolNameOf(frame.tool.params[p], DefaultPredName(frame))][2]}

\* The predecessors of the innermost activation have all run.
AtInputs == stack # <<>> /\ Top.pc = "preds" /\ Top.i > Len(Top.tool.predecessors)

\* The error names the feeder tool of a parameter of Unfed, and the feeder
\* parameter when it is the one that is missing.
NamesFeeder(frame, error) ==
    \E p \in Unfed(frame) :
        /\ error[Len(error)] = FeederToolNameOf(frame.tool.params[p], DefaultPredName(frame))
        /\ Len(error) = 3 => error[2] = frame.tool.params[p].config.FeederParamName

C15_Raises ==
    AtInputs /\ Unfed(Top) # {} =>
        /\ result'.exc = "ClothoToolError"
        /\ NamesFeeder(Top, result'.val)
        /\ stack' = <<>>
        /\ db'.Activity = db.Activity
        /\ ledger' = Append(ledger, Event("raise", Top, result'))

\* C15: an input parameter whose feeder tool or feeder parameter is missing
\* from the predecessor outputs makes run raise a ClothoToolError that names
\* the feeder; the target is not invoked and no Activity row is written.
C15_FeederRequired == [][C15_Raises]_vars

\* Witness of C15: the predecessor ran and returned a mapping without the
\* feeder parameter, and the run ended with the error that names it.
C15_Witness ==
    /\ RunOver
    /\ result.exc = "ClothoToolError"
    /\ result.val = <<"Feeder parameter not found", Str("data"), Str("Get Data")>>
    /\ \E k \in EventsOf("ret") : ledger[k].val = Dict(<<>>)
    /\ RunDb.Activity # <<>>

(***************************************************************************)
(* Claims about the default feeder, the booleans and the outputs.          *)
(***************************************************************************)
\* The parameters of the activation of event k that name a feeder
\* parameter and no feeder tool.
UnqualifiedInputs(k) ==
    {p \in 1..Len(ledger[k].frame.tool.params) :
        /\ Truthy(ledger[k].frame.tool.params[p].config.IsInput)
        /\ Truthy(ledger[k].frame.tool.params[p].config.FeederParamName)
        /\ ~Truthy(ledger[k].frame.tool.params[p].config.FeederToolName)}

\* The name the store has for the single predecessor of the activation of
\* event k.
SinglePredecessorName(k) ==
    (CHOOSE r \in Range(RunDb.Tools) :
         r.ToolID = ledger[k].frame.tool.predecessors[1].ToolID).Name

\* What the predecessor named returned to the activation of event k: its
\* mapping, or the empty one when nothing is held under the name.
ReturnedBy(k, name) ==
    IF name \in DOMAIN ledger[k].frame.pred_outputs /\ ledger[k].frame.pred_outputs[name][1] = "dict"
    THEN ledger[k].frame.pred_outputs[name][2]
    ELSE <<>>

\* What the single predecessor returned under the feeder parameter's name;
\* no value when it returned nothing under that name.
DefaultFeederValue(k, p) ==
    IF ledger[k].frame.tool.params[p].config.FeederParamName \in DOMAIN ReturnedBy(k, SinglePredecessorName(k))
    THEN ReturnedBy(k, SinglePredecessorName(k))[ledger[k].frame.tool.params[p].config.FeederParamName]
    ELSE <<"absent">>

\* The value of parameter p when the target of event k is invoked.
ValueAtInvoke(k, p) == ledger[k].frame.tool.params[p].config.Value

Unsupplied(k, p) == ledger[k].frame.tool.params[p].name \notin DOMAIN SuppliedKwargs(k)

\* C16: with exactly one predecessor, an input parameter that names a
\* feeder parameter and no feeder tool has the value the predecessor
\* returned under that name, and the target is called with it unless the
\* caller supplied an argument of the parameter's name; with no predecessor
\* or several, the parameter keeps its persisted value.
C16_DefaultFeeder ==
    \A k \in EventsOf("invoke") :
        \A p \in UnqualifiedInputs(k) :
            IF Len(ledger[k].frame.tool.predecessors) = 1
            THEN /\ ValueAtInvoke(k, p) = DefaultFeederValue(k, p)
                 /\ Unsupplied(k, p) => PassedAndRecorded(k, p, DefaultFeederValue(k, p))
            ELSE /\ ValueAtInvoke(k, p) = PersistedValue(k, p)
                 /\ Unsupplied(k, p) => PassedAndRecorded(k, p, PersistedValue(k, p))

\* Witness of C16: the target of a tool with one predecessor was called
\* with 'a1', which the predecessor returned, for a parameter that names no
\* feeder tool and whose persisted value is 'stale'.
C16_Witness ==
    \E k \in EventsOf("invoke") :
        \E p \in UnqualifiedInputs(k) :
            /\ Len(ledger[k].frame.tool.predecessors) = 1
            /\ PersistedValue(k, p) = Str("stale")
            /\ ledger[k].frame.kwargs[ledger[k].frame.tool.params[p].name] = Str("a1")

\* A string that is 'true' or 'false' in some letter case, as its boolean.
IsBooleanString(val) == val[1] = "str" /\ Lower(val[2]) \in {"true", "false"}
AsBoolean(val) == IF IsBooleanString(val) THEN Bool(Lower(val[2]) = "true") ELSE val

\* The value resolved for input parameter p of the activation of event k:
\* the argument supplied if it is true in a condition, else the
\* parameter's value.
ResolvedInput(k, p) ==
    IF ~Unsupplied(k, p) /\ Truthy(SuppliedKwargs(k)[ledger[k].frame.tool.params[p].name])
    THEN SuppliedKwargs(k)[ledger[k].frame.tool.params[p].name]
    ELSE ValueAtInvoke(k, p)

\* The value resolved for output parameter p of the activation that
\* returned at event k: the keyword argument of its name, else its entry of
\* the output mapping, else its value.
ResolvedOutput(k, p) ==
    IF ledger[k].frame.tool.params[p].name \in DOMAIN ledger[k].frame.kwargs
    THEN ledger[k].frame.kwargs[ledger[k].frame.tool.params[p].name]
    ELSE IF ledger[k].frame.tool.params[p].name \in DOMAIN ledger[k].frame.output_dict
    THEN ledger[k].frame.output_dict[ledger[k].frame.tool.params[p].name]
    ELSE ledger[k].frame.tool.params[p].config.Value

\* The values ActivityIO has for parameter p under the activity of event k.
RecordedValues(k, p) ==
    {RunDb.ActivityIO[i].Value :
        i \in {i \in RowsOfActivity("ActivityIO", ledger[k].frame.activity_id) :
                  RunDb.ActivityIO[i].ParamID = ledger[k].frame.tool.params[p].config.ParamID}}

InputsOfEvent(k) ==
    {p \in 1..Len(ledger[k].frame.tool.params) :
        Truthy(ledger[k].frame.tool.params[p].config.IsInput)}

OutputsOfEvent(k) ==
    {p \in 1..Len(ledger[k].frame.tool.params) :
        ~Truthy(ledger[k].frame.tool.params[p].config.IsInput)}

\* The activations that returned an output mapping.
Succeeded == {k \in EventsOf("ret") : ledger[k].val # None}

\* C17: the value resolved for an input or an output parameter is
\* recorded, and for an input passed to the target, as its boolean if it is
\* the string 'true' or 'false' in any letter case, and unchanged otherwise.
C17_BooleanStrings ==
    /\ \A k \in EventsOf("invoke") :
           \A p \in InputsOfEvent(k) :
               /\ ledger[k].frame.kwargs[ledger[k].frame.tool.params[p].name] =
                      AsBoolean(ResolvedInput(k, p))
               /\ RecordedValues(k, p) = {AsBoolean(ResolvedInput(k, p))}
    /\ \A k \in Succeeded :
           \A p \in OutputsOfEvent(k) :
               RecordedValues(k, p) = {AsBoolean(ResolvedOutput(k, p))}

\* Witness of C17: a target was called with True for the supplied 'True',
\* and False is recorded for an output the target returned as 'FALSE'.
C17_Witness ==
    /\ \E k \in EventsOf("invoke") :
           \E p \in InputsOfEvent(k) :
               /\ ResolvedInput(k, p) = Str("True")
               /\ ledger[k].frame.kwargs[ledger[k].frame.tool.params[p].name] = Bool(TRUE)
    /\ \E k \in Succeeded :
           \E p \in OutputsOfEvent(k) :
               /\ ResolvedOutput(k, p) = Str("FALSE")
               /\ RecordedValues(k, p) = {Bool(FALSE)}

\* The rows ActivityIO has for parameter p under the activity of event k.
RecordedRows(k, p) ==
    {i \in RowsOfActivity("ActivityIO", ledger[k].frame.activity_id) :
        RunDb.ActivityIO[i].ParamID = ledger[k].frame.tool.params[p].config.ParamID}

\* The entry of the output mapping for the parameter, else its value.
MappedOutput(k, p) ==
    IF ledger[k].frame.tool.params[p].name \in DOMAIN ledger[k].frame.output_dict
    THEN ledger[k].frame.output_dict[ledger[k].frame.tool.params[p].name]
    ELSE ledger[k].frame.tool.params[p].config.Value

\* C18 (as stated): after a successful invocation every output parameter
\* has exactly one ActivityIO row, whose value is the parameter's entry of
\* the output mapping, else its existing value (a 'true' or 'false' string
\* as its boolean), whatever keyword arguments the caller supplied.
C18_OutputsFromMapping ==
    \A k \in Succeeded :
        \A p \in OutputsOfEvent(k) :
            /\ Cardinality(RecordedRows(k, p)) = 1
            /\ RecordedValues(k, p) = {AsBoolean(MappedOutput(k, p))}

\* The same, for the parameters of whose name there is no keyword argument.
C18_OutputsFromMappingUnlessSupplied ==
    \A k \in Succeeded :
        \A p \in OutputsOfEvent(k) :
            /\ Cardinality(RecordedRows(k, p)) = 1
            /\ ledger[k].frame.tool.params[p].name \notin DOMAIN ledger[k].frame.kwargs
                   => RecordedValues(k, p) = {AsBoolean(MappedOutput(k, p))}

(***************************************************************************)
(* Claims about delete_output and delete_param, the round trip of a        *)
(* commit, and record_io.                                                  *)
(***************************************************************************)
HeldTool == heap[1].obj

\* The table delete_output and delete_param delete from.
DeletedFrom == IF call.op = "delete_output" THEN "ToolOutputs" ELSE "ToolParams"

\* The rows of the tool held that have the name the call gave.
Named(r) == r.ToolID = HeldTool.config.ToolID /\ r.Name = call.name

NotNamed(r) == ~Named(r)

OtherTablesKept(table) ==
    \A t \in DOMAIN db : t # table => db[t] = call.before[t]

\* C21: delete, delete_output and delete_param raise nothing; on a tool
\* without an identifier, and for a name the tool has no row of, the store
\* is what it was; otherwise every row of the tool with that name is gone
\* and every other row is where it was.
C21_DeleteNoOps ==
    /\ (call.op \in {"delete", "delete_output", "delete_param"} /\ heap # <<>>)
           => /\ result = Returned(None)
              /\ ~Truthy(HeldTool.config.ToolID) => db = call.before
    /\ (call.op \in {"delete_output", "delete_param"} /\ heap # <<>>)
           => /\ db[DeletedFrom] = SelectSeq(call.before[DeletedFrom], NotNamed)
              /\ OtherTablesKept(DeletedFrom)
              /\ SelectSeq(call.before[DeletedFrom], Named) = <<>> => db = call.before

\* Witness of C21: two rows of the tool had the name and both are gone,
\* while a row of that name of another tool is still there.
C21_Witness ==
    /\ call.op \in {"delete_output", "delete_param"} /\ heap # <<>>
    /\ Len(SelectSeq(call.before[DeletedFrom], Named)) = 2
    /\ SelectSeq(db[DeletedFrom], Named) = <<>>
    /\ \E r \in Range(db[DeletedFrom]) : r.Name = call.name /\ r.ToolID # HeldTool.config.ToolID

\* The other halves of the claim's case: a tool without an identifier, and
\* a name without rows.
C21_WitnessNoIdentifier ==
    /\ call.op \in {"delete", "delete_output", "delete_param"} /\ heap # <<>>
    /\ ~Truthy(HeldTool.config.ToolID)

C21_WitnessNoSuchName ==
    /\ call.op \in {"delete_output", "delete_param"} /\ heap # <<>>
    /\ Truthy(HeldTool.config.ToolID)
    /\ SelectSeq(call.before[DeletedFrom], Named) = <<>>

\* The tool loaded again after the commit of the tool held.
Reloaded == result.val

ParamValues(tool) ==
    {<<tool.params[i].name, tool.params[i].config.Value>> : i \in 1..Len(tool.params)}

PredecessorIds(tool) == [i \in 1..Len(tool.predecessors) |-> tool.predecessors[i].ToolID]

SameTool(a, b) ==
    /\ a.config.ToolID = b.config.ToolID
    /\ ParamValues(a) = ParamValues(b)
    /\ a.outputs = b.outputs
    /\ PredecessorIds(a) = PredecessorIds(b)

\* C22 (as stated): a tool configured by the name alone, or by the
\* identifier alone, of a tool just committed is constructed without an
\* error and has the identifier, the parameter names and values, the
\* ordered output names and the predecessor identifiers of the committed
\* tool.
C22_RoundTrip ==
    (call.op = "reload" /\ heap # <<>>)
        => /\ result.exc = ""
           /\ SameTool(Reloaded, HeldTool)

\* The committed tool has a name that no other row of Tools has, output
\* names that differ, and predecessors that all have an identifier.
WellFormed(tool) ==
    /\ IsStr(tool.config.Name)
    /\ Cardinality({i \in 1..Len(db.Tools) :
                       MatchInsensitive(db.Tools[i].Name, tool.config.Name)}) = 1
    /\ \A i, j \in 1..Len(tool.outputs) : tool.outputs[i] = tool.outputs[j] => i = j
    /\ \A i \in 1..Len(tool.predecessors) :
           /\ Truthy(tool.predecessors[i].ToolID)
           /\ \E r \in Range(db.Tools) : r.ToolID = tool.predecessors[i].ToolID

\* The same, for the tools that are well formed.
C22_RoundTripWellFormed ==
    (call.op = "reload" /\ heap # <<>> /\ WellFormed(HeldTool))
        => /\ result.exc = ""
           /\ SameTool(Reloaded, HeldTool)

\* The row record_io added, and the rows there were before.
RecordedRow == db.ActivityIO[Len(db.ActivityIO)]
RowsBefore == call.before.ActivityIO

IsRecordIO == call.op = "record_io" /\ result = Returned(None)

OneRowAppended ==
    /\ Len(db.ActivityIO) = Len(RowsBefore) + 1
    /\ SubSeq(db.ActivityIO, 1, Len(RowsBefore)) = RowsBefore
    /\ \A r \in Range(RowsBefore) : r.IOID # RecordedRow.IOID
    /\ Truthy(RecordedRow.IOID)

CarriesTheCall ==
    /\ RecordedRow.ActivityID = call.activity_id
    /\ RecordedRow.ParamName = call.param.name
    /\ RecordedRow.Value = call.value
    /\ RecordedRow.IsResource = call.param.config.IsResource
    /\ RecordedRow.IsInput = call.param.config.IsInput
    /\ RecordedRow.IsRead = call.param.config.IsRead
    /\ RecordedRow.IsWrite = call.param.config.IsWrite

ParamIsStored == \E r \in Range(db.ToolParams) : r.ParamID = RecordedRow.ParamID

HeldParam == stack[1]

\* The instance the shed has for the resource the parameter held names.
Referenced == heap[shed[HeldParam.config.Value]]

\* What param.value returns in this state.
ValueNow == ParamValueOf(db, heap, shed, HeldParam).res

\* The full path of the parent of the resource referenced, as the shed's
\* instance of the parent gives it.
ParentPathNow ==
    ParamGetValue(db, heap, shed, Referenced.parent_row[1].Name).res

\* parent's full path + "/" + v
Under(parent_path, v) == Str(parent_path[2] \o "/" \o v[2])

Assigned == call.op = "param_assign" /\ stack # <<>> /\ result.exc = ""

\* C24: the value read of a resource-flagged parameter is the full path of
\* the shed's resource of that name, none while that resource's Path is
\* null; an assignment sets the Path of that resource, leaves the
\* parameter's literal Value as it was, and the value read next is the
\* parent's full path, "/" and the value assigned; the value read of a
\* parameter that is not flagged is the value assigned last.
C24_ParamValue ==
    /\ (call.op = "param_read" /\ IsFlagged(HeldParam) /\ result.exc = "")
           => /\ HeldParam.config.Value \in DOMAIN shed
              /\ result = PathNow(shed[HeldParam.config.Value])
              /\ Referenced.config.Path = None => result.val = None
    /\ (Assigned /\ IsFlagged(HeldParam))
           => /\ HeldParam = call.before
              /\ Referenced.config.Path = call.val
              /\ (/\ call.val # None
                  /\ Referenced.parent_row # <<>>
                  /\ ParentPathNow.exc = ""
                  /\ ParentPathNow.val # None)
                     => ValueNow = Returned(Under(ParentPathNow.val, call.val))
    /\ (Assigned /\ ~IsFlagged(HeldParam))
           => /\ ValueNow = Returned(call.val)
              /\ HeldParam.config.Value = call.val
    /\ (call.op = "param_read" /\ ~IsFlagged(HeldParam))
           => result = Returned(HeldParam.config.Value)

\* Witness of C24: 'qwer' was assigned to a flagged parameter whose
\* resource lies under 'X:/GIS'; the parameter's Value is still the
\* resource's name and the value read is 'X:/GIS/qwer'.
C24_Witness ==
    /\ Assigned /\ IsFlagged(HeldParam)
    /\ call.val = Str("qwer")
    /\ HeldParam.config.Value = Str("project folder")
    /\ ValueNow = Returned(Str("X:/GIS/qwer"))

\* The literal half of the claim's case.
C24_WitnessLiteral ==
    /\ call.op = "param_read" /\ stack # <<>> /\ ~IsFlagged(HeldParam)
    /\ result = Returned(Str("qwer"))

\* The read that followed the assignment returned it.
C24_WitnessRead ==
    /\ call.op = "param_read" /\ stack # <<>> /\ IsFlagged(HeldParam)
    /\ result = Returned(Str("X:/GIS/qwer"))

(***************************************************************************)
(* SpecPar: two callers, threads or processes with a ClothoDB each on the  *)
(* same file, call set_row at the same time.  set_row reads the table      *)
(* (self._db.get) and later replaces it (self._db.import_df with           *)
(* overwrite=True); each of the two is one operation of the file, and the  *)
(* operations of the two callers interleave in any order.  heap[w] is      *)
(* caller w: [pc, table, row, id_col, df, overlapped].                     *)
(***************************************************************************)
Writers == {1, 2}

\* "Get the existing table, minus the row we're replacing."
SetRowKept(d, table, row, id_col) ==
    LET keep(r) == row[id_col] = None \/ r[id_col] # row[id_col]
    IN  SelectSeq(d[table], keep)

\* "Put the old data plus the new row in the database."
SetRowPut(d, table, df, row) ==
    [d EXCEPT ![table] = Append(df, TemplateRow(table, row))]

\* The rows the callers write: one the store may have already, and new ones.
ParRows ==
    { ResourceRow(Str("r1"), Str("X Drive"), Str("Y:"), None),
      ResourceRow(Str("r8"), Str("maps"), Str("m"), Str("r1")),
      ResourceRow(Str("r9"), Str("dem"), Str("d"), Str("r1")) }

ParStores ==
    { [Resources |-> <<>>],
      [Resources |-> <<RowXDrive>>],
      [Resources |-> <<RowXDrive, RowGIS>>] }

Writer(row) ==
    [pc |-> "get", table |-> "Resources", row |-> row, id_col |-> "ResourceID",
     df |-> <<>>, overlapped |-> FALSE]

InitPar ==
    /\ db \in ParStores
    /\ \E row1 \in ParRows, row2 \in ParRows : heap = <<Writer(row1), Writer(row2)>>
    /\ call = [op |-> "set_row", before |-> db]
    /\ result = NoResult
    /\ shed = <<>> /\ stack = <<>> /\ ledger = <<>> /\ clock = 0

\* df = self._db.get(table_name); df = df[df[id_col] != row[id_col]].  The
\* call overlaps the other caller's if that one has read and not written.
ParGet(w) ==
    /\ heap[w].pc = "get"
    /\ heap' = [heap EXCEPT
                   ![w].pc = "import",
                   ![w].df = SetRowKept(db, heap[w].table, heap[w].row, heap[w].id_col),
                   ![w].overlapped = heap[3 - w].pc = "import",
                   ![3 - w].overlapped = @ \/ heap[3 - w].pc = "import"]
    /\ UNCHANGED <<db, call, result, shed, stack, ledger, clock>>

\* self._db.import_df(df, table_name, True)
ParImport(w) ==
    /\ heap[w].pc = "import"
    /\ db' = SetRowPut(db, heap[w].table, heap[w].df, heap[w].row)
    /\ heap' = [heap EXCEPT ![w].pc = "done"]
    /\ UNCHANGED <<call, result, shed, stack, ledger, clock>>

NextPar ==
    \/ \E w \in Writers : ParGet(w)
    \/ \E w \in Writers : ParImport(w)

SpecPar == InitPar /\ [][NextPar]_vars

(***************************************************************************)
(* Claims about concurrent writers.                                        *)
(***************************************************************************)
BothDone == \A w \in Writers : heap[w].pc = "done"

DifferentIdentifiers == heap[1].row.ResourceID # heap[2].row.ResourceID

Written(w) == TemplateRow(heap[w].table, heap[w].row)

\* The rows the store had that neither caller replaces.
Untouched ==
    {r \in Range(call.before.Resources) :
        \A w \in Writers : r.ResourceID # heap[w].row.ResourceID}

BothRowsAndTheOld ==
    /\ \A w \in Writers : Written(w) \in Range(db.Resources)
    /\ Untouched \subseteq Range(db.Resources)

\* C25 (as stated): after two set_row calls for different identifiers on
\* the same table, interleaved in any way, the table has both rows and
\* every row it had before.
C25_BothRowsKept ==
    (BothDone /\ DifferentIdentifiers) => BothRowsAndTheOld

\* The same, for two calls of which neither began while the other had read
\* the table and not yet replaced it.
C25_BothRowsKeptUnlessOverlapped ==
    (BothDone /\ DifferentIdentifiers /\ \A w \in Writers : ~heap[w].overlapped)
        => BothRowsAndTheOld

\* One caller alone: the two operations leave what set_row leaves.
C25_AloneIsSetRow ==
    \A w \in Writers :
        (heap[w].pc = "done" /\ heap[3 - w].pc = "get")
            => db = SetRow(call.before, heap[w].table, heap[w].row, heap[w].id_col)

(***************************************************************************)
(* The ledger is append-only.                                              *)
(***************************************************************************)
EndColumns == {"EndTime", "Duration", "Succeeded", "Message"}

\* The rows of the table stay where they are, as they are; rows may follow.
RowsKept(table) ==
    /\ Len(db'[table]) >= Len(db[table])
    /\ SubSeq(db'[table], 1, Len(db[table])) = db[table]

\* The row is the one the innermost activation of run wrote when it began.
CreatedByTheRun(row) ==
    /\ call.op = "run" /\ stack # <<>>
    /\ Top.pc \in {"invoke", "end"}
    /\ row.ActivityID = Top.activity_id
    /\ row.ToolID = Top.tool.config.ToolID
    /\ row.StartTime = TimeString(Top.start_time)

\* Only the end columns differ, and they were empty.
EndAdded(old, new) ==
    /\ DOMAIN new = DOMAIN old
    /\ \A c \in DOMAIN old \ EndColumns : new[c] = old[c]
    /\ \A c \in EndColumns : new[c] # old[c] => old[c] = None

ActivityKept ==
    /\ Len(db'.Activity) >= Len(db.Activity)
    /\ \A i \in 1..Len(db.Activity) :
           \/ db'.Activity[i] = db.Activity[i]
           \/ CreatedByTheRun(db.Activity[i]) /\ EndAdded(db.Activity[i], db'.Activity[i])

\* C26: no step of run, and no commit, delete, delete_output, delete_param
\* or record_io after it, removes or changes a row of ActivityIO or removes
\* a row of Activity; a row of Activity changes only when the activation of
\* run that wrote it fills its empty EndTime, Duration, Succeeded and
\* Message.
C26_AppendOnly == [][RowsKept("ActivityIO") /\ ActivityKept]_vars

\* The tool that ran is deleted, its activities and those of its failed
\* predecessor stay.
C26_Witness ==
    /\ call.op = "after" /\ call.then = "delete"
    /\ \E r \in Range(call.before.Tools) : r.ToolID = call.tool_id
    /\ \A r \in Range(db.Tools) : r.ToolID # call.tool_id
    /\ \E r \in Range(db.Activity) : r.ToolID = call.tool_id /\ r.Succeeded # None
    /\ db.ActivityIO # <<>>

C26_WitnessOp(op) ==
    /\ call.op = "after" /\ call.then = op
    /\ db # call.before
    /\ db.Activity # <<>> /\ db.ActivityIO # <<>>

C26_WitnessCommit == C26_WitnessOp("commit")
C26_WitnessDeleteOutput == C26_WitnessOp("delete_output")
C26_WitnessDeleteParam == C26_WitnessOp("delete_param")
C26_WitnessRecordIO == C26_WitnessOp("record_io")

(***************************************************************************)
(* Names are unique.                                                       *)
(***************************************************************************)
\* No two rows of the table have the same Name, letter case apart.
UniqueNames(d, table) ==
    \A i, j \in 1..Len(d[table]) :
        /\ i # j
        /\ IsStr(d[table][i].Name) /\ IsStr(d[table][j].Name)
        => Lower(d[table][i].Name[2]) # Lower(d[table][j].Name[2])

\* C27: a commit of a tool or of a resource on a store whose names are
\* unique leaves a store whose names are unique, whatever partial
\* configuration the object was constructed with.
C27_UniqueNames ==
    /\ call.op = "commit"
    /\ UniqueNames(call.before, "Tools") /\ UniqueNames(call.before, "Resources")
    => UniqueNames(db, "Tools") /\ UniqueNames(db, "Resources")

\* The store has the object's name under another identifier than the
\* object's.
Clashes(d, table, id_col, obj) ==
    \E r \in Range(d[table]) :
        /\ r[id_col] # obj.config[id_col]
        /\ Lower(StrOf(r.Name)) = Lower(StrOf(obj.config.Name))

CommitClashes ==
    \/ heap[1].kind = "tool" /\ Clashes(call.before, "Tools", "ToolID", heap[1].obj)
    \/ heap[1].kind = "resource"
       /\ Clashes(call.before, "Resources", "ResourceID", heap[1].obj)

\* A commit of an object whose identifier is the one the store has for its
\* name, or whose name the store does not have, keeps the names unique.
C27_UniqueNamesUnlessClashing ==
    /\ call.op = "commit" /\ ~CommitClashes
    /\ UniqueNames(call.before, "Tools") /\ UniqueNames(call.before, "Resources")
    => UniqueNames(db, "Tools") /\ UniqueNames(db, "Resources")

\* A tool or a resource of a new name was committed.
C27_WitnessNew ==
    /\ call.op = "commit" /\ ~CommitClashes
    /\ heap[1].kind \in {"tool", "resource"}
    /\ UniqueNames(call.before, "Tools") /\ UniqueNames(call.before, "Resources")
    /\ Len(db.Tools) + Len(db.Resources) > Len(call.before.Tools) + Len(call.before.Resources)

(***************************************************************************)
(* Output names are unique within a tool.                                  *)
(***************************************************************************)
NoNameTwice(outputs) ==
    \A i, j \in 1..Len(outputs) : i # j => outputs[i] # outputs[j]

\* ToolOutputs has one row at most of the tool and a name.
OneRowEach(d, tool_id) ==
    \A i, j \in 1..Len(d.ToolOutputs) :
        /\ i # j
        /\ d.ToolOutputs[i].ToolID = tool_id /\ d.ToolOutputs[j].ToolID = tool_id
        => d.ToolOutputs[i].Name # d.ToolOutputs[j].Name

ToolMade == call.op = "new" /\ call.kind = "tool" /\ result.exc = ""
ToolWritten == call.op = "commit" /\ heap # <<>> /\ heap[1].kind = "tool"

\* C28: the outputs of a tool just configured hold no name twice, and a
\* commit of a tool leaves one row at most of ToolOutputs for the tool and
\* each name.
C28_OutputNamesUnique ==
    /\ ToolMade => NoNameTwice(result.val.outputs)
    /\ ToolWritten => /\ NoNameTwice(heap[1].obj.outputs)
                      /\ OneRowEach(db, heap[1].obj.config.ToolID)

\* With a configuration whose outputs list repeats no name, the outputs of
\* the tool repeat none, the names of the store and of the output
\* parameters included; and a tool whose outputs repeat no name is written
\* with one row of ToolOutputs for each name, where the store had one at
\* most.
C28_OutputNamesUniqueUnlessRepeated ==
    /\ ToolMade /\ NoNameTwice(SectionInsensitive(call.config, "outputs"))
       => NoNameTwice(result.val.outputs)
    /\ ToolWritten /\ NoNameTwice(heap[1].obj.outputs)
       /\ OneRowEach(call.before, heap[1].obj.config.ToolID)
       => OneRowEach(db, heap[1].obj.config.ToolID)

\* A tool with the outputs of the store, one of them the name of its
\* output parameter, was configured, and a tool with outputs was written
\* twice.
C28_WitnessMade ==
    /\ ToolMade /\ NoNameTwice(SectionInsensitive(call.config, "outputs"))
    /\ Len(result.val.outputs) >= 2
    /\ \E p \in Range(result.val.params) :
           ~Truthy(p.config.IsInput) /\ p.name \in Range(result.val.outputs)

C28_WitnessWritten ==
    /\ ToolWritten /\ NoNameTwice(heap[1].obj.outputs)
    /\ heap[1].commits = 2
    /\ \E r \in Range(db.ToolOutputs) : r.ToolID = heap[1].obj.config.ToolID

(***************************************************************************)
(* The order of the events of one run.                                     *)
(***************************************************************************)
\* The ledger rows of activity a in store d.
StartRows(d, a) == {r \in Range(d.Activity) : r.ActivityID = a}
InputRows(d, a) ==
    {r \in Range(d.ActivityIO) : r.ActivityID = a /\ Truthy(r.IsInput)}
OutputRows(d, a) ==
    {r \in Range(d.ActivityIO) : r.ActivityID = a /\ ~Truthy(r.IsInput)}
BatchRows(d, a) == {r \in Range(d.BatchActivity) : r.ActivityID = a}

HasStarted(d, a) == StartRows(d, a) # {}
HasEnded(d, a) == \E r \in StartRows(d, a) : r.EndTime # None

\* The calls of the target made for activity a, as events of the ledger.
Invocations(led, a) ==
    {k \in 1..Len(led) : led[k].ev = "invoke" /\ led[k].frame.activity_id = a}

TargetReturned(led, a) ==
    \E k \in Invocations(led, a) : led[k].val.kind = "return"

\* The activities that a step of run may write about.
ActivitiesOf(d, st) ==
    {r.ActivityID : r \in Range(d.Activity)} \cup {r.ActivityID : r \in Range(d.ActivityIO)}
        \cup {r.ActivityID : r \in Range(d.BatchActivity)}
        \cup {st[i].activity_id : i \in 1..Len(st)}

InputParams(tool) == {p \in 1..Len(tool.params) : Truthy(tool.params[p].config.IsInput)}

\* Input rows are written only while the activity has no start row, and
\* the start row is written when there is an input row for every input
\* parameter and nothing else of the activity.
InputsThenStart(a) ==
    /\ InputRows(db', a) # InputRows(db, a) => ~HasStarted(db', a)
    /\ HasStarted(db', a) /\ ~HasStarted(db, a)
       => /\ Cardinality(InputRows(db, a)) = Cardinality(InputParams(Top.tool))
          /\ Invocations(ledger', a) = {} /\ OutputRows(db', a) = {}
          /\ BatchRows(db', a) = {}

\* The target is called when the start row is there and the target was not
\* called before; no batch, end or output is recorded yet.
StartThenInvoke(a) ==
    Invocations(ledger', a) # Invocations(ledger, a)
    => /\ HasStarted(db, a) /\ ~HasEnded(db, a)
       /\ Invocations(ledger, a) = {}
       /\ Cardinality(Invocations(ledger', a)) = 1
       /\ BatchRows(db, a) = {} /\ OutputRows(db, a) = {}

\* Batch rows are written after the target returned, before the end.
InvokeThenBatches(a) ==
    BatchRows(db', a) # BatchRows(db, a)
    => TargetReturned(ledger, a) /\ ~HasEnded(db', a) /\ OutputRows(db', a) = {}

\* The end is recorded after the one call of the target, before any
\* output, and the batch rows do not change from then on.
BatchesThenEnd(a) ==
    /\ HasEnded(db', a) /\ ~HasEnded(db, a)
       => /\ Cardinality(Invocations(ledger', a)) = 1
          /\ OutputRows(db', a) = {}
    /\ HasEnded(db, a) => BatchRows(db', a) = BatchRows(db, a)

\* Output rows are written after the end of an activity that succeeded.
EndThenOutputs(a) ==
    OutputRows(db', a) # OutputRows(db, a)
    => \E r \in StartRows(db, a) : r.EndTime # None /\ r.Succeeded = Bool(TRUE)

\* No activation of run calls the target twice.
InvokedOnce(led) ==
    \A i, j \in 1..Len(led) :
        /\ led[i].ev = "invoke" /\ led[j].ev = "invoke"
        /\ led[i].frame.serial = led[j].frame.serial
        => i = j

InOrder(a) ==
    /\ InputsThenStart(a)
    /\ StartThenInvoke(a)
    /\ InvokeThenBatches(a)
    /\ BatchesThenEnd(a)
    /\ EndThenOutputs(a)

\* C29: in every step of run, for every activity: input rows are written
\* before the start row, the start row before the one call of the target,
\* batch rows after the target returned and before the end, the end before
\* the output rows; the target is never called for an activity without a
\* start row, nor twice.
C29_EventOrder ==
    [][call.op = "run" /\ call'.op = "run"
       => /\ \A a \in ActivitiesOf(db', stack) \ {None} : InOrder(a)
          /\ InvokedOnce(ledger')]_vars

\* A run with an input, a batch and an output recorded for an activity
\* that succeeded.
C29_Witness ==
    \E a \in ActivitiesOf(db, <<>>) :
        /\ InputRows(db, a) # {} /\ OutputRows(db, a) # {} /\ BatchRows(db, a) # {}
        /\ \E r \in StartRows(db, a) : r.Succeeded = Bool(TRUE)
        /\ Cardinality(Invocations(ledger, a)) = 1

\* A failed run: the end is recorded, no output and no batch.
C29_WitnessFailed ==
    \E a \in ActivitiesOf(db, <<>>) :
        /\ InputRows(db, a) # {} /\ OutputRows(db, a) = {} /\ BatchRows(db, a) = {}
        /\ \E r \in StartRows(db, a) : r.Succeeded = Bool(FALSE)
        /\ Cardinality(Invocations(ledger, a)) = 1

(***************************************************************************)
(* The predecessors run depth-first, in declared order.                    *)
(***************************************************************************)
\* The identifier the store has for a tool name, letter case apart.
IdOfName(d, name) ==
    IF \E r \in Range(d.Tools) : Lower(StrOf(r.Name)) = Lower(StrOf(name))
    THEN (CHOOSE r \in Range(d.Tools) : Lower(StrOf(r.Name)) = Lower(StrOf(name))).ToolID
    ELSE None

\* The predecessors the configuration declares, in its order.
ConfigDeclaredIds(d, config) ==
    [i \in 1..Len(config.predecessors) |-> IdOfName(d, config.predecessors[i][1])]

\* The predecessors the store has for the tool, in the order of the rows.
StoreDeclaredIds(d, tool_id) ==
    LET of_tool(r) == r.ToolID = tool_id /\ Truthy(r.PredecessorID)
        rows == SelectSeq(d.ToolPredecessors, of_tool)
    IN  [i \in 1..Len(rows) |-> rows[i].PredecessorID]

\* Those of the store that the configuration did not declare.
StoreOnlyIds(d, config, tool_id) ==
    LET undeclared(id) == id \notin Range(ConfigDeclaredIds(d, config))
    IN  SelectSeq(StoreDeclaredIds(d, tool_id), undeclared)

PredecessorIdsOf(tool) == [i \in 1..Len(tool.predecessors) |-> tool.predecessors[i].ToolID]

\* The events of the ledger for the runs that activation s started.
Started(led, s) == {k \in 1..Len(led) : led[k].ev = "run" /\ led[k].frame.caller = s}

\* The run of event k returned a mapping.
Completed(led, k) ==
    \E j \in (k + 1)..Len(led) :
        /\ led[j].ev = "ret" /\ led[j].frame.serial = led[k].frame.serial
        /\ led[j].val # None

\* Every predecessor of the activation has run, in declared order, and has
\* returned its outputs.
AllCompleted(led, frame) ==
    /\ Cardinality(Started(led, frame.serial)) = Len(frame.tool.predecessors)
    /\ \A k \in Started(led, frame.serial) : Completed(led, k)

\* The n-th run that activation s started is the run of its n-th
\* predecessor, and starts when the runs before it have returned.
NthOfCaller(led, k) == Cardinality({j \in Started(led, led[k].frame.caller) : j <= k})

StartedInOrder(led, parent, k) ==
    /\ led[k].frame.tool.config.ToolID
           = parent.tool.predecessors[NthOfCaller(led, k)].ToolID
    /\ \A j \in Started(led, parent.serial) : j < k => Completed(SubSeq(led, 1, k), j)

\* Every activation under the innermost one is waiting for the run of its
\* predecessor, which is the activation above it, and has done nothing more.
DepthFirst(st) ==
    \A i \in 1..(Len(st) - 1) :
        /\ st[i + 1].caller = st[i].serial
        /\ st[i].activity_id = None
        /\ st[i].pc = "preds"

\* A step of the innermost activation that writes to the store or calls
\* the target.
ActsForItself ==
    \/ db' # db
    \/ \E k \in 1..Len(ledger') : k > Len(ledger) /\ ledger'[k].ev = "invoke"

RunStarts == Len(stack') > Len(stack)

\* C30: the predecessors of a tool are those its configuration declares,
\* in the order of the configuration, then those only the store has; a run
\* of a predecessor starts from the innermost activation only, for the
\* next predecessor in that order, when the runs before it have returned;
\* and the activation commits its tool, records anything or calls its
\* target only when all its predecessors have returned.
C30_DepthFirstInOrder ==
    [][call.op = "run" /\ call'.op = "run"
       => /\ DepthFirst(stack')
          /\ RunStarts /\ stack = <<>>
             => PredecessorIdsOf(stack'[1].tool)
                    = ConfigDeclaredIds(db, call.config)
                          \o StoreOnlyIds(db, call.config, stack'[1].tool.config.ToolID)
          /\ RunStarts /\ stack # <<>>
             => /\ stack'[Len(stack')].caller = Top.serial
                /\ StartedInOrder(ledger', Top, Len(ledger'))
          /\ ActsForItself => stack # <<>> /\ AllCompleted(ledger, Top)]_vars

\* The tool with a declared and a stored predecessor calls its target
\* after both have run, the declared one first.
C30_Witness ==
    \E k \in 1..Len(ledger) :
        /\ ledger[k].ev = "invoke"
        /\ PredecessorIdsOf(ledger[k].frame.tool) = <<Str("tq"), Str("tp")>>
        /\ call.config.predecessors # <<>>
        /\ AllCompleted(ledger, ledger[k].frame)

\* Two predecessors of the store have run in the order of its rows.
C30_WitnessStored ==
    \E k \in 1..Len(ledger) :
        /\ ledger[k].ev = "invoke"
        /\ PredecessorIdsOf(ledger[k].frame.tool) = <<Str("tp"), Str("tq")>>
        /\ AllCompleted(ledger, ledger[k].frame)

(***************************************************************************)
(* The parent of a resource.                                               *)
(***************************************************************************)
ResourceMade == call.op = "new" /\ call.kind = "resource" /\ result.exc = ""

\* The row of the store that the resource was filled from, if any.
FilledFrom ==
    {r \in Range(call.before.Resources) :
        MatchInsensitive(r.ResourceID, result.val.config.ResourceID)}

\* The Parent value that init_parent starts from: the caller's, or the
\* persisted one.
GivenParent ==
    IF HasKeyInsensitive(call.config, "Parent")
    THEN StrIfPath(GetCaseInsensitive(call.config, "Parent", None))
    ELSE IF FilledFrom = {} THEN None
    ELSE (CHOOSE r \in FilledFrom : TRUE).Parent

ParentsById == {r \in Range(call.before.Resources) : r.ResourceID = GivenParent}
ParentsByName ==
    {r \in Range(call.before.Resources) :
        IsStr(r.Name) /\ Lower(r.Name[2]) = Lower(StrOf(GivenParent))}

\* The parent that the claim names: by identifier first, then by name.
ParentsFound == IF ParentsById # {} THEN ParentsById ELSE ParentsByName

\* The path of the resource just made, read at once.
PathAtOnce == PathOf(call.before, <<>>, <<>>, result.val, MaxDepth).res

\* C31: a resource constructed without error, whose Parent value is not
\* empty, has the row found by ResourceID exactly, else by Name ignoring
\* case, as its parent and that row's ResourceID as its Parent; when no row
\* is found its Parent is the value given, it has no parent row and its
\* path is its own Path.
C31_ParentResolution ==
    ResourceMade /\ Truthy(GivenParent)
    => IF ParentsFound # {}
       THEN /\ result.val.parent_row = <<CHOOSE r \in ParentsFound : TRUE>>
            /\ Cardinality(ParentsFound) = 1
            /\ result.val.config.Parent = result.val.parent_row[1].ResourceID
       ELSE /\ result.val.parent_row = <<>>
            /\ result.val.config.Parent = GivenParent
            /\ PathAtOnce = Returned(result.val.config.Path)

\* A parent given by name is found and normalised to its identifier.
C31_Witness ==
    /\ ResourceMade /\ GivenParent = Str("x drive")
    /\ result.val.config.Parent = Str("r1")
    /\ result.val.parent_row # <<>>

C31_WitnessById ==
    /\ ResourceMade /\ GivenParent = Str("r1") /\ result.val.parent_row # <<>>

\* 'R1' is no identifier and no name of the store.
C31_WitnessNotFound ==
    /\ ResourceMade /\ GivenParent = Str("R1")
    /\ result.val.config.Parent = Str("R1") /\ result.val.parent_row = <<>>

C31_WitnessStored ==
    /\ ResourceMade /\ ~HasKeyInsensitive(call.config, "Parent")
    /\ GivenParent = Str("r2") /\ result.val.parent_row # <<>>

\* Several rows have the name given as the parent: the constructor raises.
C31_WitnessAmbiguous ==
    /\ call.op = "new" /\ call.kind = "resource" /\ result.exc = "ClothoError"
    /\ GetCaseInsensitive(call.config, "Parent", None) = Str("gis")

(***************************************************************************)
(* SpecLoop: the resources of a store whose Parent values go round.        *)
(***************************************************************************)
InitLoop ==
    /\ db = LoopStore
    /\ call = [op |-> "start"]
    /\ result = NoResult
    /\ heap = <<>> /\ shed = <<>> /\ stack = <<>> /\ ledger = <<>> /\ clock = 0

\* The caller constructs resources, requests them of the shed and reads
\* their paths.
NextLoop ==
    \/ ResNew
    \/ ResShedGet
    \/ ResReadPath

SpecLoop == InitLoop /\ [][NextLoop]_vars

\* The row that a Parent value resolves to: by ResourceID, else by Name.
ParentRowsOf(row) ==
    IF ~Truthy(row.Parent) THEN {}
    ELSE IF \E r \in Range(db.Resources) : r.ResourceID = row.Parent
    THEN {r \in Range(db.Resources) : r.ResourceID = row.Parent}
    ELSE {r \in Range(db.Resources) :
              IsStr(r.Name) /\ Lower(r.Name[2]) = Lower(StrOf(row.Parent))}

\* The rows reached from the row in n steps up the persisted Parent chain.
RECURSIVE Ancestors(_, _)
Ancestors(rows, n) ==
    IF n = 0 THEN rows
    ELSE Ancestors(UNION {ParentRowsOf(r) : r \in rows}, n - 1)

\* The chain from the row never ends: it reaches a cycle.
ReachesCycle(row) == Ancestors({row}, Len(db.Resources)) # {}

\* The row a resource of the heap was filled from.
RowOf(obj) == CHOOSE r \in Range(db.Resources) : r.ResourceID = obj.config.ResourceID

PathRead == call.op = "path" /\ call.addr \in 1..Len(heap)

\* The path getter with the recursion limit at depth.
ReadAt(obj, depth) == PathOf(db, heap, shed, obj, depth).res

\* C32: a read of the path of a resource whose persisted Parent chain ends
\* returns, within as many calls as the store has rows; a read of the path
\* of a resource whose chain reaches a cycle goes beyond every recursion
\* limit and returns nothing, with a ResourceShed and without.
C32_PathTermination ==
    PathRead
    => IF ReachesCycle(RowOf(heap[call.addr]))
       THEN /\ result.exc = "RecursionError"
            /\ \A depth \in 0..(MaxDepth + 2) :
                   ReadAt(heap[call.addr], depth).exc = "RecursionError"
       ELSE /\ result.exc = ""
            /\ ReadAt(heap[call.addr], Len(db.Resources)).exc = ""

\* The path of the resource that is its own parent was read through a
\* shed.
C32_Witness ==
    /\ PathRead /\ heap[call.addr].has_shed
    /\ heap[call.addr].config.ResourceID = Str("c3")
    /\ result.exc = "RecursionError"

C32_WitnessStandalone ==
    /\ PathRead /\ ~heap[call.addr].has_shed
    /\ heap[call.addr].config.ResourceID = Str("c4")
    /\ result.exc = "RecursionError"

C32_WitnessRing ==
    /\ PathRead /\ heap[call.addr].has_shed
    /\ heap[call.addr].config.ResourceID = Str("c2")
    /\ result.exc = "RecursionError"

C32_WitnessEnds ==
    /\ PathRead /\ heap[call.addr].config.ResourceID = Str("r2")
    /\ heap[call.addr].has_shed
    /\ result = Returned(Str("X:/GIS"))

(***************************************************************************)
(* SpecRaw: ToolParam.value of a parameter constructed without a           *)
(* ResourceShed, read and assigned beside resources the caller constructs  *)
(* itself.  The variable stack holds the ToolParam, a sequence of at most  *)
(* one object.                                                             *)
(***************************************************************************)
\* param = ToolParam(db, id=id)
RawParamNew ==
    \E i \in 1..Len(db.ToolParams) :
        /\ stack = <<>>
        /\ result' = ParamNew(db, <<>>, db.ToolParams[i].ParamID)
        /\ stack' = ParamHeld(ParamNew(db, <<>>, db.ToolParams[i].ParamID))
        /\ call' = [op |-> "raw_new", id |-> db.ToolParams[i].ParamID]
        /\ UNCHANGED <<db, heap, shed, ledger, clock>>

RawAssigned(set, val) ==
    /\ result' = IF set.exc # "" THEN set ELSE Returned(None)
    /\ stack' = IF set.exc # "" THEN stack ELSE <<set.val>>

\* param.value = val
RawParamAssign ==
    /\ stack # <<>>
    /\ \E val \in ResPaths :
           /\ RawAssigned(ParamSetRaw(db, stack[1], val), val)
           /\ call' = [op |-> "raw_assign", val |-> val, was |-> ParamValue(db, stack[1])]
    /\ UNCHANGED <<db, heap, shed, ledger, clock>>

\* param.value
RawParamRead ==
    /\ stack # <<>>
    /\ result' = ParamValue(db, stack[1])
    /\ call' = [op |-> "raw_read"]
    /\ UNCHANGED <<db, heap, shed, stack, ledger, clock>>

NextRaw ==
    \/ RawParamNew
    \/ RawParamAssign
    \/ RawParamRead
    \/ ResNew
    \/ ResSetPath
    \/ ResReadPath

SpecRaw == InitRes /\ [][NextRaw]_vars

(***************************************************************************)
(* Claims about ToolParam.value without a ResourceShed.                    *)
(***************************************************************************)
RawAssignedNow == call.op = "raw_assign" /\ stack # <<>> /\ result.exc = ""

\* The Resource that get_resource constructs for the parameter held.
RawResource ==
    ResourceNew(db, <<<<"Name", HeldParam.config.Value>>>>, None, FALSE)

\* What the path of that Resource is once its Path is val.
PathWere(val) ==
    PathOf(db, <<>>, <<>>, SetPathOf(RawResource.val, val), MaxDepth).res

\* C33: for a resource-flagged parameter without a ResourceShed, the value
\* read after the assignment value = v is the path of the parameter's
\* Resource with its Path set to v.
C33_SetThenGet ==
    (RawAssignedNow /\ IsFlagged(HeldParam) /\ RawResource.exc = "")
        => ParamValue(db, HeldParam) = PathWere(call.val)

\* What the code does instead: the value read after the assignment is the
\* value read before it, and a parameter that is not flagged reads the
\* value assigned.
C33_AssignmentLost ==
    /\ (RawAssignedNow /\ IsFlagged(HeldParam))
           => ParamValue(db, HeldParam) = call.was
    /\ (RawAssignedNow /\ ~IsFlagged(HeldParam))
           => ParamValue(db, HeldParam) = Returned(call.val)

\* 'qwer' was assigned to the parameter naming 'project folder', whose
\* Resource would then be at 'X:/GIS/qwer', and the value read is another.
C33_WitnessLost ==
    /\ RawAssignedNow /\ IsFlagged(HeldParam)
    /\ call.val = Str("qwer")
    /\ HeldParam.config.Value = Str("project folder")
    /\ PathWere(call.val) = Returned(Str("X:/GIS/qwer"))
    /\ ParamValue(db, HeldParam) # Returned(Str("X:/GIS/qwer"))

(***************************************************************************)
(* Claims about ToolParam.configure finding its row by tool and name.      *)
(***************************************************************************)
\* A ToolParam was constructed from a configuration that has a ToolID and
\* no ParamID, and without an identifier.
ByToolAndName ==
    /\ call.op = "new" /\ call.kind = "param" /\ call.id = None
    /\ ~Truthy(GetCaseInsensitive(call.config, "ParamID", None))
    /\ Truthy(GetCaseInsensitive(call.config, "ToolID", None))

\* The rows of ToolParams of that tool and, ignoring case, that name.
RowsOfToolAndName ==
    LET hit(r) == /\ r.ToolID = GetCaseInsensitive(call.config, "ToolID", None)
                  /\ Lower(r.Name[2])
                       = Lower(GetCaseInsensitive(call.config, "Name", None)[2])
    IN  SelectSeq(call.before.ToolParams, hit)

\* The parameter made has the fields of row, but for the caller's.
TakenFrom(row) ==
    /\ result.exc = ""
    /\ result.val.name = GetCaseInsensitive(call.config, "Name", row.Name)
    /\ result.val.config.ParamID = row.ParamID
    /\ \A key \in DOMAIN row \ {"Name", "IsInput"} :
           result.val.config[key] = GetCaseInsensitive(call.config, key, row[key])

\* C34: a ToolParam resolved by ToolID and Name of which more than one row
\* of ToolParams matches is an error; with exactly one match the parameter
\* has that row's ParamID and fields, the caller's values overriding.
C34_AmbiguousIsError ==
    ByToolAndName =>
        /\ Len(RowsOfToolAndName) > 1 => result.exc # ""
        /\ Len(RowsOfToolAndName) = 1 => TakenFrom(RowsOfToolAndName[1])

\* What the code does: the first matching row is taken, however many match.
C34_FirstRowTaken ==
    (ByToolAndName /\ RowsOfToolAndName # <<>>) => TakenFrom(RowsOfToolAndName[1])

\* Two rows of 'Crunch Data' are named 'data', and the parameter made is
\* the one of the first.
C34_WitnessTwo ==
    /\ ByToolAndName /\ Len(RowsOfToolAndName) = 2
    /\ result.exc = "" /\ result.val.config.ParamID = Str("p4")

\* One row matches a name given in another case, with a value overridden.
C34_WitnessOne ==
    /\ ByToolAndName /\ Len(RowsOfToolAndName) = 1
    /\ result.exc = "" /\ result.val.config.ParamID = Str("p3")

(***************************************************************************)
(* Claims about the rows of ActivityIO and their activity.                 *)
(***************************************************************************)
RunHasEnded == call.op = "run" /\ result # NoResult /\ stack = <<>>

\* The rows of ActivityIO whose ActivityID no row of Activity has.
IOWithoutActivity ==
    { i \in 1..Len(db.ActivityIO) :
        \A j \in 1..Len(db.Activity) :
            db.Activity[j].ActivityID # db.ActivityIO[i].ActivityID }

\* C35: when a run has ended, by returning or by raising, every row of
\* ActivityIO has the ActivityID of a row of Activity.
C35_IOHasActivity == RunHasEnded => IOWithoutActivity = {}

\* What holds of the code: rows without their activity are left only by a
\* run that raised, and are rows of inputs.
C35_IOHasActivityUnlessRaised ==
    RunHasEnded =>
        /\ result.exc = "" => IOWithoutActivity = {}
        /\ \A i \in IOWithoutActivity : db.ActivityIO[i].IsInput = Bool(TRUE)

\* The run raised on the feeder of the second input, and the row of the
\* first is there without its activity.
C35_WitnessFeeder ==
    /\ RunHasEnded /\ result.exc = "ClothoToolError"
    /\ IOWithoutActivity # {} /\ db.Activity = <<>>

\* The run raised when loading the target.
C35_WitnessLoad ==
    /\ RunHasEnded /\ result.exc = "ImportError"
    /\ IOWithoutActivity # {}

\* A run that returned its outputs.
C35_WitnessReturned ==
    /\ RunHasEnded /\ result.exc = "" /\ result.val # None
    /\ db.ActivityIO # <<>>

(***************************************************************************)
(* SpecRead: Tool.config read on the object the caller constructed,        *)
(* before and after its commit.                                            *)
(***************************************************************************)
\* param_configs[name].pop('ToolID'), on the parameter's own dictionary
PoppedToolID(cfg) == [k \in DOMAIN cfg \ {"ToolID"} |-> cfg[k]]

\* The tool after its config was read: param_configs[name] = param.config
\* is the dictionary of the parameter, not a copy of it.
ToolAfterConfig(tool) ==
    [tool EXCEPT !.params =
        [i \in 1..Len(tool.params) |->
            [name |-> tool.params[i].name,
             config |-> PoppedToolID(tool.params[i].config)]]]

\* preds[row['Name']] = {'ToolID': row['ToolID']}: the last row of a name
PredsByName(predecessors) ==
    [name \in {predecessors[i].Name : i \in 1..Len(predecessors)} |->
        predecessors[CHOOSE i \in 1..Len(predecessors) :
                         /\ predecessors[i].Name = name
                         /\ \A j \in (i + 1)..Len(predecessors) :
                                predecessors[j].Name # name].ToolID]

\* Tool.config, the value returned.
ToolConfig(tool) ==
    [fields |-> tool.config,
     params |-> [i \in 1..Len(tool.params) |->
                    <<tool.params[i].name, PoppedToolID(tool.params[i].config)>>],
     predecessors |-> PredsByName(tool.predecessors),
     outputs |-> tool.outputs]

\* tool.config
CfgReadConfig ==
    /\ heap # <<>> /\ call.op \in {"new", "commit", "config"}
    /\ heap[1].kind = "tool"
    /\ result' = Returned(ToolConfig(heap[1].obj))
    /\ heap' = <<[heap[1] EXCEPT !.obj = ToolAfterConfig(@)]>>
    /\ call' = [op |-> "config", held |-> heap[1].obj, before |-> db]
    /\ UNCHANGED <<db, shed, stack, ledger, clock>>

NextRead ==
    \/ CfgNew
    \/ CfgCommit
    \/ CfgReadConfig

SpecRead == InitCfg /\ [][NextRead]_vars

(***************************************************************************)
(* Claims about reading Tool.config.                                       *)
(***************************************************************************)
ConfigRead == call.op = "config" /\ heap # <<>>

\* C36: reading Tool.config leaves the tool's configuration, its outputs
\* and the configuration of every parameter, its ToolID included, as they
\* were.
C36_ReadIsPure ==
    ConfigRead =>
        /\ heap[1].obj.config = call.held.config
        /\ heap[1].obj.outputs = call.held.outputs
        /\ \A i \in 1..Len(call.held.params) :
               heap[1].obj.params[i].config = call.held.params[i].config

\* What holds of the code: the read leaves the tool's own configuration,
\* the outputs, the predecessors and the store as they were, takes nothing
\* but the ToolID from a parameter, and a commit after the read writes what
\* a commit without it would have written.
C36_ReadKeepsAllButToolID ==
    ConfigRead =>
        /\ heap[1].obj.config = call.held.config
        /\ heap[1].obj.outputs = call.held.outputs
        /\ heap[1].obj.predecessors = call.held.predecessors
        /\ db = call.before
        /\ \A i \in 1..Len(call.held.params) :
               /\ heap[1].obj.params[i].name = call.held.params[i].name
               /\ \A k \in DOMAIN call.held.params[i].config \ {"ToolID"} :
                      heap[1].obj.params[i].config[k] = call.held.params[i].config[k]
        /\ ToolCommit(db, clock, heap[1].obj) = ToolCommit(db, clock, call.held)

\* A tool loaded from the store was read, and its parameters have no
\* ToolID any more.
C36_WitnessPopped ==
    /\ ConfigRead
    /\ call.held.params # <<>>
    /\ \A i \in 1..Len(call.held.params) :
           /\ call.held.params[i].config.ToolID = Str("tt")
           /\ "ToolID" \notin DOMAIN heap[1].obj.params[i].config

\* The config was read a second time.
C36_WitnessTwice ==
    /\ ConfigRead /\ call.held.params # <<>>
    /\ heap[1].obj = call.held

(***************************************************************************)
(* Claims about a tool that is a predecessor on more than one path.        *)
(***************************************************************************)
\* The tool the caller ran, and its identifier when its target is called:
\* run has committed a tool that had none.
RootTool == ledger[1].frame.tool

RootId ==
    ledger[CHOOSE k \in EventsOf("invoke") :
               ledger[k].frame.serial = ledger[1].frame.serial].frame.tool.config.ToolID

\* The number of predecessor paths from the tool of identifier id to x, the
\* predecessors being those of the store.
RECURSIVE PathsOver(_, _, _, _)
RECURSIVE PathsFrom(_, _, _)

PathsFrom(id, x, fuel) ==
    IF id = x THEN 1
    ELSE IF fuel = 0 THEN 0
    ELSE PathsOver(StoreDeclaredIds(RunDb, id), 1, x, fuel - 1)

PathsOver(ids, i, x, fuel) ==
    IF i > Len(ids) THEN 0
    ELSE PathsFrom(ids[i], x, fuel) + PathsOver(ids, i + 1, x, fuel)

\* The paths from the tool the caller ran, whose predecessors are those of
\* the object.
PathsFromRoot(x) ==
    IF RootId = x THEN 1
    ELSE PathsOver(PredecessorIdsOf(RootTool), 1, x, Len(RunDb.Tools))

InvocationsOf(x) ==
    {k \in EventsOf("invoke") : ledger[k].frame.tool.config.ToolID = x}

ActivityRowsOf(x) == {i \in 1..Len(RunDb.Activity) : RunDb.Activity[i].ToolID = x}

ActivityIdsOf(x) == {RunDb.Activity[i].ActivityID : i \in ActivityRowsOf(x)}

\* The run is over and returned a mapping.
RunSucceeded == RunOver /\ result.exc = "" /\ result.val # None

\* C37: in a run that succeeded, a tool that the tool run reaches over k
\* predecessor paths has had its target called k times and has k rows of
\* Activity, with k different ActivityIDs.
C37_NotMemoized ==
    RunSucceeded =>
        \A x \in {r.ToolID : r \in Range(RunDb.Tools)} :
            /\ Cardinality(InvocationsOf(x)) = PathsFromRoot(x)
            /\ Cardinality(ActivityRowsOf(x)) = PathsFromRoot(x)
            /\ Cardinality(ActivityIdsOf(x)) = PathsFromRoot(x)

\* The diamond: 'Get Data' is reached from 'Crunch Data' directly and over
\* 'Check Data', and was called twice.
C37_Witness ==
    /\ RunSucceeded
    /\ PathsFromRoot(Str("tp")) = 2
    /\ Cardinality(InvocationsOf(Str("tp"))) = 2
    /\ Cardinality(ActivityIdsOf(Str("tp"))) = 2
    /\ Cardinality(InvocationsOf(Str("tt"))) = 1

(***************************************************************************)
(* Claims about the value run returns.                                     *)
(***************************************************************************)
SerialOf(k) == ledger[k].frame.serial

\* The target of activation s raised an Exception, which run caught.
TargetHadRaised(s) ==
    \E k \in EventsOf("invoke") : SerialOf(k) = s /\ ledger[k].val.kind = "raise"

\* A predecessor that activation s ran had returned None before event j.
PredecessorHadFailed(s, j) ==
    \E i \in EventsOf("ret") : i < j /\ CallerOf(i) = s /\ ledger[i].val = None

\* The calls of a target that returned.
Returns == {k \in EventsOf("invoke") : ledger[k].val.kind = "return"}

\* C38: a run whose target returned does not return None, and returns the
\* empty mapping when the target returned None; a run returns None only
\* when its target raised or a predecessor of it returned None; and what
\* the caller gets without an error is what the run of its tool returned.
C38_NoneOnlyOnFailure ==
    /\ \A j \in EventsOf("ret") :
           ledger[j].val = None
               => TargetHadRaised(SerialOf(j)) \/ PredecessorHadFailed(SerialOf(j), j)
    /\ \A k \in Returns, j \in EventsOf("ret") :
           SerialOf(j) = SerialOf(k)
               => /\ ledger[j].val # None
                  /\ ledger[k].val.val = None => ledger[j].val = Dict(<<>>)
    /\ (call.op = "run" /\ RunOver /\ result.exc = "")
           => \E j \in EventsOf("ret") :
                  SerialOf(j) = SerialOf(1) /\ ledger[j].val = result.val

\* 'Get Data' returned None from its target, its run returned the empty
\* mapping, and 'Crunch Data' went on to call its own target and returned.
C38_Witness ==
    /\ call.op = "run" /\ RunOver /\ result.exc = "" /\ result.val # None
    /\ \E k \in Returns, j \in EventsOf("ret") :
           /\ SerialOf(j) = SerialOf(k) /\ CallerOf(k) = SerialOf(1)
           /\ ledger[k].val.val = None /\ ledger[j].val = Dict(<<>>)
    /\ \E k \in Returns : SerialOf(k) = SerialOf(1)

\* The target of the tool run returned None and the caller has the empty
\* mapping.
C38_WitnessRoot ==
    /\ call.op = "run" /\ RunOver /\ result.exc = ""
    /\ result.val = Dict(<<>>)
    /\ \E k \in Returns : SerialOf(k) = SerialOf(1) /\ ledger[k].val.val = None

\* The caller has None, after the target of a predecessor raised.
C38_WitnessNone ==
    /\ call.op = "run" /\ RunOver /\ result = Returned(None)
    /\ ~TargetHadRaised(SerialOf(1)) /\ PredecessorHadFailed(SerialOf(1), Len(ledger))

(***************************************************************************)
(* SpecCycle: "Crunch Data" run on stores whose ToolPredecessors rows go   *)
(* round, beside stores where they do not.                                 *)
(***************************************************************************)
WithPredecessor(d, tool_id, pred_id) ==
    [d EXCEPT !.ToolPredecessors =
        Append(@, ToolPredecessorRow(Str("r" \o ToString(Len(@) + 8)), tool_id, pred_id))]

\* 'Crunch Data' is its own predecessor.
SelfStore == RunStore(<<Str("tt")>>, None)

\* 'Crunch Data' after 'Check Data' after 'Crunch Data'.
RingStore == WithPredecessor(RunStore(<<Str("tq")>>, None), Str("tq"), Str("tt"))

\* 'Crunch Data' after 'Get Data' and 'Check Data', which is its own
\* predecessor.
LateStore == WithPredecessor(RunStore(<<Str("tp"), Str("tq")>>, None), Str("tq"), Str("tq"))

\* 'Crunch Data' after 'Check Data', which is after 'Get Data' and 'Crunch
\* Data': every turn of the cycle runs 'Get Data'.
SideStore ==
    WithPredecessor(WithPredecessor(RunStore(<<Str("tq")>>, None), Str("tq"), Str("tp")),
                    Str("tq"), Str("tt"))

\* 'Crunch Data' after 'No Path' after 'Crunch Data': a tool of the cycle
\* has no Path.
PathlessStore == WithPredecessor(RunStore(<<Str("tn")>>, None), Str("tn"), Str("tt"))

CycleStores ==
    {SelfStore, RingStore, LateStore, SideStore, PathlessStore, DiamondStore,
     RunStore(<<Str("tp")>>, None)}

InitCycle ==
    /\ db \in CycleStores
    /\ \E kwargs \in {kw \in RunKwargs : DOMAIN kw \subseteq {Str("data")}} :
           call = [op |-> "run", config |-> NoConfig, id |-> Str("tt"), kwargs |-> kwargs]
    /\ result = NoResult
    /\ heap = <<>> /\ shed = <<>> /\ stack = <<>> /\ ledger = <<>> /\ clock = 0

NextCycle ==
    \/ CallRun
    \/ RunCheckPath
    \/ RunPredecessor
    \/ RunUpdateInputs
    \/ RunStartActivity
    \/ RunInvoke
    \/ RunWriteBatches
    \/ RunEndActivity
    \/ RunUpdateOutputs

\* The interpreter keeps running the program.  This is WF_vars(NextCycle)
\* with its enabling condition written out: a step can be taken exactly
\* while the run is not over.
KeepsRunning == []<><<NextCycle>>_vars \/ []<>(stack = <<>> /\ result # NoResult)

SpecCycle == InitCycle /\ [][NextCycle]_vars /\ KeepsRunning

(***************************************************************************)
(* Claims about the termination of run.                                    *)
(***************************************************************************)
\* The tools that are predecessors of the tools of set, over any number of
\* rows of ToolPredecessors.
RECURSIVE PredsClosure(_, _)
PredsClosure(set, n) ==
    IF n = 0 THEN set
    ELSE PredsClosure(set \cup UNION {Range(StoreDeclaredIds(db, x)) : x \in set}, n - 1)

PredsOf(x) == PredsClosure(Range(StoreDeclaredIds(db, x)), Len(db.Tools))

OnCycle(x) == x \in PredsOf(x)

\* x is on a cycle or has a tool of a cycle among its predecessors.
LeadsToCycle(x) == OnCycle(x) \/ \E y \in PredsOf(x) : OnCycle(y)

\* The graph of the tool the caller runs.
GraphOfRun == {call.id} \cup PredsOf(call.id)

Cyclic == \E x \in GraphOfRun : OnCycle(x)

HasPath(x) == \E r \in Range(db.Tools) : r.ToolID = x /\ r.Path # None

\* There is a cycle all of whose tools have a Path.
CyclicWithPaths ==
    \E x \in GraphOfRun :
        /\ OnCycle(x)
        /\ \A y \in PredsOf(x) : x \in PredsOf(y) => HasPath(y)
        /\ HasPath(x)

\* Every tool of the graph has a Path and is on a cycle or leads to one.
NothingButCycle == \A x \in GraphOfRun : HasPath(x) /\ LeadsToCycle(x)

IORowsOf(x) ==
    {i \in 1..Len(db.ActivityIO) :
        \E p \in Range(db.ToolParams) :
            p.ParamID = db.ActivityIO[i].ParamID /\ p.ToolID = x}

NothingDone ==
    EventsOf("invoke") = {} /\ db.Activity = <<>> /\ db.ActivityIO = <<>>

\* C39, as stated: run terminates when the predecessor graph of the tool
\* has no cycle; when it has a cycle whose tools all have a Path, run ends
\* only at the limit of the recursion, no target is called and no row of
\* Activity or ActivityIO is written.
C39_AsStated ==
    /\ (~Cyclic) ~> RunOver
    /\ [](CyclicWithPaths => NothingDone)
    /\ []((CyclicWithPaths /\ RunOver) => result.exc = "RecursionError")

\* C39, amended: run terminates when the graph has no cycle, and not at the
\* limit of the recursion; when the graph has a cycle, run returns no
\* outputs, and a tool that is on a cycle or leads to one never has its
\* target called nor a row of Activity or ActivityIO; when every tool of
\* the graph has a Path and is on a cycle or leads to one, run ends only at
\* the limit of the recursion and nothing is called or written at all.
C39_Termination ==
    /\ (~Cyclic) ~> RunOver
    /\ []((RunOver /\ ~Cyclic) => result.exc # "RecursionError")
    /\ []((RunOver /\ Cyclic) => ~(result.exc = "" /\ result.val # None))
    /\ [](\A x \in GraphOfRun :
             LeadsToCycle(x)
                 => InvocationsOf(x) = {} /\ ActivityRowsOf(x) = {} /\ IORowsOf(x) = {})
    /\ [](NothingButCycle => NothingDone)
    /\ []((NothingButCycle /\ RunOver) => result.exc = "RecursionError")

\* 'Crunch Data' is its own predecessor: the run ended at the limit of the
\* recursion with nothing called or written.
C39_Witness ==
    /\ RunOver /\ db = SelfStore /\ NothingButCycle
    /\ result.exc = "RecursionError"
    /\ Cardinality(EventsOf("run")) = MaxDepth

\* The cycle lies behind 'Get Data', which was run and has its rows.
C39_WitnessLate ==
    /\ RunOver /\ db.ToolPredecessors = LateStore.ToolPredecessors
    /\ CyclicWithPaths /\ result.exc = "RecursionError"
    /\ InvocationsOf(Str("tp")) # {} /\ ActivityRowsOf(Str("tp")) # {}

\* 'Get Data', which every turn of the cycle runs, failed, and the run
\* returned None.
C39_WitnessSide ==
    /\ RunOver /\ db.ToolPredecessors = SideStore.ToolPredecessors
    /\ CyclicWithPaths /\ result = Returned(None)
    /\ InvocationsOf(Str("tp")) # {}

\* A run without a cycle that returned.
C39_WitnessAcyclic ==
    /\ RunOver /\ ~Cyclic /\ result.exc = "" /\ result.val # None
    /\ Cardinality(EventsOf("run")) = 4

(***************************************************************************)
(* SpecCase: one store row requested of the shed under names that differ   *)
(* in letter case only.                                                    *)
(***************************************************************************)
InitCase ==
    /\ db = CaseStore
    /\ call = [op |-> "start"]
    /\ result = NoResult
    /\ heap = <<>> /\ shed = <<>> /\ stack = <<>> /\ ledger = <<>> /\ clock = 0

\* The caller requests resources of the shed, assigns paths and reads them.
NextCase ==
    \/ ResShedGet
    \/ ResSetPath
    \/ ResReadPath

SpecCase == InitCase /\ [][NextCase]_vars

\* Two names the shed holds that differ in letter case only.
CaseTwins(s) ==
    {p \in (DOMAIN s) \X (DOMAIN s) : p[1] # p[2] /\ Lower(p[1][2]) = Lower(p[2][2])}

\* What reading the path of the object at addr gives, in the given heap.
PathSeen(h, s, addr) == PathOf(db, h, s, h[addr], MaxDepth).res

\* The objects of the heap that resolve their parent through the shed by
\* the name of the parent's row.
ChildrenBy(name) ==
    {c \in 1..Len(heap) : /\ heap[c].has_shed
                          /\ heap[c].parent_row # <<>>
                          /\ heap[c].parent_row[1].Name = name}

\* The name of the persisted row the object was filled from.
PersistedName(obj) == RowOf(obj).Name

\* shed.get(name) returned an instance when the shed held one under a name
\* differing in case only.
GotTwin(m) ==
    /\ call'.op = "shed_get" /\ call'.name # m
    /\ m \in DOMAIN shed
    /\ Lower(call'.name[2]) = Lower(m[2])
    /\ result'.exc = ""

\* twin.path = new_path, through the instance the shed holds under m.
SetThrough(m) ==
    /\ call'.op = "set_path"
    /\ m \in DOMAIN shed
    /\ call'.addr = shed[m]

C40_WitnessTwoGets ==
    /\ call.op = "shed_get" /\ call.name = Str("GIS")
    /\ Str("gis") \in DOMAIN shed
    /\ result = Returned(shed[Str("GIS")])
    /\ shed[Str("GIS")] # shed[Str("gis")]
    /\ heap[shed[Str("GIS")]].config.ResourceID = heap[shed[Str("gis")]].config.ResourceID

=============================================================================
